---------------------------- MODULE Spec2Model ----------------------------
(***************************************************************************)
(* Model of async_upnp_client/profiles/dlna.py: the DLNA DMR device        *)
(* profile (DmrDevice), its LastChange decoder and its update loop.        *)
(*                                                                         *)
(* Strings of the program are TLA+ strings.  The string functions the code *)
(* uses (strip, upper, lower, split, find) are given as tables over the    *)
(* finite set of strings the model draws its inputs from.  Python's None   *)
(* is the distinguished string None.                                       *)
(***************************************************************************)
EXTENDS Integers, Sequences, FiniteSets, TLC

VARIABLES
    services,                    \* service roles the device has: subset of {"AVT","RC","CM"}
    actions,                     \* names of the actions the device exposes
    state_variables,             \* the variable store: name -> [present, value, updated_at]
    is_subscribed,               \* subscription status flag of the profile
    on_event,                    \* TRUE iff an external observer callback is registered
    _current_track_meta_data,    \* DmrDevice._current_track_meta_data
    _av_transport_uri_meta_data, \* DmrDevice._av_transport_uri_meta_data
    update,                      \* the frame of the async_update call (position, polls issued)
    notification,                \* the last notification handed to _on_event
    observed,                    \* calls made to the observer by the last notification or poll
    command,                     \* the last command method called and what it did
    wait                         \* the frame of the async_wait_for_can_play call

vars == <<services, actions, state_variables, is_subscribed, on_event,
          _current_track_meta_data, _av_transport_uri_meta_data,
          update, notification, observed, command, wait>>

None == "<None>"
Now == "<now>"

-----------------------------------------------------------------------------
(* Bounds of the model.                                                    *)

\* longest LastChange payload, in SAX events
MaxPayloadLen == 3

-----------------------------------------------------------------------------
(* String tables.                                                          *)

\* str.strip()
Strip(s) ==
    CASE s = " playing " -> "playing"
      [] s = "\tSTOPPED\n" -> "STOPPED"
      [] s = " Repeat_One " -> "Repeat_One"
      [] s = " "         -> ""
      [] s = " pause "   -> "pause"
      [] s = " Stop"     -> "Stop"
      [] s = " stop"     -> "stop"
      [] s = " abs_time " -> "abs_time"
      [] s = " InstallationDefaults" -> "InstallationDefaults"
      [] OTHER           -> s

\* str.upper()
Upper(s) ==
    CASE s = "playing"         -> "PLAYING"
      [] s = "Playing"         -> "PLAYING"
      [] s = " playing "       -> " PLAYING "
      [] s = "paused_playback" -> "PAUSED_PLAYBACK"
      [] s = "stopped"         -> "STOPPED"
      [] s = "bogus"           -> "BOGUS"
      [] s = "paused playback" -> "PAUSED PLAYBACK"
      [] s = "shuffle"         -> "SHUFFLE"
      [] s = "Repeat_One"      -> "REPEAT_ONE"
      [] s = " Repeat_One "    -> " REPEAT_ONE "
      [] s = "direct_1"        -> "DIRECT_1"
      [] s = "party"           -> "PARTY"
      [] OTHER                 -> s

\* str.lower()
Lower(s) ==
    CASE s = "Play"     -> "play"
      [] s = "PLAY"     -> "play"
      [] s = "Pause"    -> "pause"
      [] s = " Pause "  -> " pause "
      [] s = "Stop"     -> "stop"
      [] s = " Stop"    -> " stop"
      [] s = "Next"     -> "next"
      [] s = "Previous" -> "previous"
      [] s = "Seek"     -> "seek"
      [] s = "Audio/MPEG" -> "audio/mpeg"
      [] s = "ABS_TIME"   -> "abs_time"
      [] s = "REL_TIME"   -> "rel_time"
      [] s = "TRACK_NR"   -> "track_nr"
      [] s = " Abs_Time " -> " abs_time "
      [] OTHER          -> s

\* str.split(","): the comma-separated values the model uses
SplitComma(s) ==
    CASE s = ""                   -> <<"">>
      [] s = "Play,Stop"          -> <<"Play", "Stop">>
      [] s = "PLAY, Stop, Pause " -> <<"PLAY", " Stop", " Pause ">>
      [] s = "Next,Previous,Seek" -> <<"Next", "Previous", "Seek">>
      [] s = "FactoryDefaults, InstallationDefaults" ->
             <<"FactoryDefaults", " InstallationDefaults">>
      [] OTHER                    -> <<s>>

\* name[name.find(":") + 1:] when ":" in name, else name
StripPrefix(name) ==
    CASE name = "avt:TransportState"        -> "TransportState"
      [] name = "avt:CurrentTrackMetaData"  -> "CurrentTrackMetaData"
      [] OTHER                              -> name

Range(s) == {s[i] : i \in DOMAIN s}

-----------------------------------------------------------------------------
(* Enumerations.                                                           *)

TransportState ==
    {"STOPPED", "PLAYING", "TRANSITIONING", "PAUSED_PLAYBACK", "PAUSED_RECORDING",
     "RECORDING", "NO_MEDIA_PRESENT", "VENDOR_DEFINED"}

PlayMode ==
    {"NORMAL", "SHUFFLE", "REPEAT_ONE", "REPEAT_ALL", "RANDOM", "DIRECT_1", "INTRO",
     "VENDOR_DEFINED"}

AVT_SERVICE_ID == "urn:upnp-org:serviceId:AVTransport"
RC_SERVICE_ID == "urn:upnp-org:serviceId:RenderingControl"

\* UpnpService.service_id of the service found for a role
service_id(role) == IF role = "AVT" THEN AVT_SERVICE_ID ELSE RC_SERVICE_ID

-----------------------------------------------------------------------------
(* The variable store.                                                     *)

LevelNames == {"Brightness", "Contrast", "Sharpness", "ColorTemperature", "Volume"}

VarNames ==
    {"TransportState", "CurrentTransportActions", "CurrentTrackMetaData",
     "AVTransportURIMetaData", "CurrentPlayMode", "A_ARG_TYPE_SeekMode",
     "Mute", "PresetNameList"} \cup LevelNames

\* the service role that models a variable
VarService(name) ==
    IF name \in LevelNames \cup {"Mute", "PresetNameList"} THEN "RC" ELSE "AVT"

\* min_value and max_value are 0 when the device declares no bound: the code reads
\* them as "min_value or 0" and "max_value or 100", which takes None and 0 alike
\* allowed_values is the list of values the device declares for the variable
NoVar == [present |-> FALSE, value |-> None, updated_at |-> None,
          min_value |-> 0, max_value |-> 0, allowed_values |-> <<>>]
FreshVar == [present |-> TRUE, value |-> None, updated_at |-> None,
             min_value |-> 0, max_value |-> 0, allowed_values |-> <<>>]

\* UpnpProfileDevice._service: the role's service, if the device has it
_service(svcs, role) == role \in svcs

\* UpnpProfileDevice._state_variable: the variable, NoVar when not modelled
_state_variable(svcs, sv, role, name) ==
    IF role \in svcs /\ name \in VarNames /\ VarService(name) = role
    THEN sv[name] ELSE NoVar

\* UpnpProfileDevice._action: TRUE iff the action is exposed
_action(svcs, acts, role, name) == role \in svcs /\ name \in acts

-----------------------------------------------------------------------------
(* State Reader.                                                           *)

\* DmrDevice.transport_state
transport_state(svcs, sv) ==
    LET state_var == _state_variable(svcs, sv, "AVT", "TransportState")
        state_value == Upper(Strip(IF state_var.value = None THEN "" ELSE state_var.value))
    IN  IF ~state_var.present THEN None
        ELSE IF state_value \in TransportState THEN state_value
        ELSE "VENDOR_DEFINED"

play_mode_unstripped(svcs, sv) ==
    LET state_var == _state_variable(svcs, sv, "AVT", "CurrentPlayMode")
        state_value == Upper(IF state_var.value = None THEN "" ELSE state_var.value)
    IN  IF ~state_var.present THEN None
        ELSE IF state_value \in PlayMode THEN state_value
        ELSE "VENDOR_DEFINED"

\* DmrDevice.play_mode
play_mode(svcs, sv) ==
    LET state_var == _state_variable(svcs, sv, "AVT", "CurrentPlayMode")
        state_value == Upper(Strip(IF state_var.value = None THEN "" ELSE state_var.value))
    IN  IF ~state_var.present THEN None
        ELSE IF state_value \in PlayMode THEN state_value
        ELSE "VENDOR_DEFINED"

_has_current_transport_actions_present(svcs, sv) ==
    _state_variable(svcs, sv, "AVT", "CurrentTransportActions").present

\* DmrDevice._has_current_transport_actions
_has_current_transport_actions(svcs, sv) ==
    LET state_var == _state_variable(svcs, sv, "AVT", "CurrentTransportActions")
    IN  IF ~state_var.present THEN FALSE
        ELSE state_var.value # None \/ state_var.updated_at # None

\* DmrDevice._current_transport_actions
_current_transport_actions(svcs, sv) ==
    LET state_var == _state_variable(svcs, sv, "AVT", "CurrentTransportActions")
        transport_actions == SplitComma(IF state_var.value = None THEN "" ELSE state_var.value)
    IN  IF ~state_var.present THEN <<>>
        ELSE [i \in DOMAIN transport_actions |-> Strip(Lower(transport_actions[i]))]

_can_transport_action_held(svcs, sv, action) ==
    \/ action \in Range(_current_transport_actions(svcs, sv))
    \/ _has_current_transport_actions(svcs, sv)

\* DmrDevice._can_transport_action
_can_transport_action(svcs, sv, action) ==
    \/ action \in Range(_current_transport_actions(svcs, sv))
    \/ ~_has_current_transport_actions(svcs, sv)

-----------------------------------------------------------------------------
(* Metadata Cache.                                                         *)

\* didl_lite.from_xml_string(xml, strict=False): the objects decoded from a value
from_xml_string(xml) ==
    CASE xml = "<DIDL><item id=A/></DIDL>"            -> <<"itemA">>
      [] xml = "<DIDL><item id=B/><item id=A/></DIDL>" -> <<"itemB", "itemA">>
      [] xml = "<DIDL><desc/></DIDL>"                  -> <<"desc">>
      [] OTHER                                         -> <<>>

\* the decoded objects that are instances of didl_lite.DidlObject
DidlObject == {"itemA", "itemB"}

MetaDataAttrs == {"title", "artist", "album"}

\* hasattr(item, attr)
hasattr(item, attr) ==
    \/ item = "itemA" /\ attr \in {"title", "artist"}
    \/ item = "itemB" /\ attr \in {"title", "album"}

\* getattr(item, attr)
getattr(item, attr) ==
    CASE item = "itemA" /\ attr = "title"  -> "Song A"
      [] item = "itemA" /\ attr = "artist" -> "Artist A"
      [] item = "itemB" /\ attr = "title"  -> "Song B"
      [] item = "itemB" /\ attr = "album"  -> "Album B"
      [] OTHER                             -> None

_update_current_track_meta_data_keep(cache, xml) ==
    LET items == from_xml_string(xml)
    IN  IF xml \in {None, ""} THEN None
        ELSE IF xml = "NOT_IMPLEMENTED" THEN cache
        ELSE IF items = <<>> THEN None
        ELSE IF items[1] \notin DidlObject THEN None
        ELSE items[1]

\* DmrDevice._update_current_track_meta_data: the new cache for the variable's value
_update_current_track_meta_data(cache, xml) ==
    LET items == from_xml_string(xml)
    IN  IF xml \in {None, ""} \/ xml = "NOT_IMPLEMENTED" THEN None
        ELSE IF items = <<>> THEN None
        ELSE IF items[1] \notin DidlObject THEN None
        ELSE items[1]

\* DmrDevice._update_av_transport_uri_metadata: the new cache for the variable's value
_update_av_transport_uri_metadata(cache, xml) ==
    LET items == from_xml_string(xml)
    IN  IF xml \in {None, ""} \/ xml = "NOT_IMPLEMENTED" THEN None
        ELSE IF items = <<>> THEN None
        ELSE IF items[1] \notin DidlObject THEN None
        ELSE items[1]

\* DmrDevice._get_current_track_meta_data
_get_current_track_meta_data(cache, attr) ==
    IF cache = None THEN None
    ELSE IF ~hasattr(cache, attr) THEN None
    ELSE getattr(cache, attr)

\* DmrDevice.media_title
media_title(cache) == _get_current_track_meta_data(cache, "title")
\* DmrDevice.media_artist
media_artist(cache) == _get_current_track_meta_data(cache, "artist")
\* DmrDevice.media_album_name
media_album_name(cache) == _get_current_track_meta_data(cache, "album")

-----------------------------------------------------------------------------
(* Change Decoder.  A payload is the sequence of SAX events its parse      *)
(* delivers: [kind, name, val, channel], an attribute that is not given    *)
(* being None.                                                             *)

StartElement(name, val, channel) ==
    [kind |-> "start", name |-> name, val |-> val, channel |-> channel]
EndElement(name) ==
    [kind |-> "end", name |-> name, val |-> None, channel |-> None]

\* a place where the parser reports a recoverable error, and one where the text
\* is not well-formed and the parser reports a fatal error
RecoverableError == [kind |-> "error", name |-> None, val |-> None, channel |-> None]
FatalError == [kind |-> "fatal", name |-> None, val |-> None, channel |-> None]

\* dict[key] = value on a dict kept as a sequence of <<key, value>> in insertion order
DictSet(d, key, value) ==
    IF \E i \in DOMAIN d : d[i][1] = key
    THEN [i \in DOMAIN d |-> IF d[i][1] = key THEN <<key, value>> ELSE d[i]]
    ELSE Append(d, <<key, value>>)

\* DlnaDmrEventContentHandler.__init__
NewContentHandler == [changes |-> <<>>, _current_instance |-> None]

\* self.changes[instance]: changes is a dict instance -> dict, kept as a sequence
ChangesOf(changes, instance) ==
    IF \E i \in DOMAIN changes : changes[i][1] = instance
    THEN LET i == CHOOSE j \in DOMAIN changes : changes[j][1] = instance
         IN  changes[i][2]
    ELSE <<>>

HasInstance(changes, instance) == \E i \in DOMAIN changes : changes[i][1] = instance

startElement_any_instance(handler, ev) ==
    IF ev.val = None THEN handler
    ELSE IF ev.name = "InstanceID"
    THEN [handler EXCEPT !._current_instance = ev.val]
    ELSE LET current_instance == "0"
             created == IF HasInstance(handler.changes, current_instance)
                        THEN handler.changes
                        ELSE Append(handler.changes, <<current_instance, <<>> >>)
         IN  IF ev.channel \notin {None, "Master"}
             THEN [handler EXCEPT !.changes = created]
             ELSE [handler EXCEPT !.changes =
                      DictSet(created, current_instance,
                              DictSet(ChangesOf(created, current_instance),
                                      StripPrefix(ev.name), ev.val))]

\* DlnaDmrEventContentHandler.startElement
startElement(handler, ev) ==
    IF ev.val = None THEN handler
    ELSE IF ev.name = "InstanceID"
    THEN [handler EXCEPT !._current_instance = ev.val]
    ELSE LET current_instance ==
                 IF handler._current_instance \in {None, ""}
                 THEN "0" ELSE handler._current_instance
             created == IF HasInstance(handler.changes, current_instance)
                        THEN handler.changes
                        ELSE Append(handler.changes, <<current_instance, <<>> >>)
         IN  IF ev.channel \notin {None, "Master"}
             THEN [handler EXCEPT !.changes = created]
             ELSE [handler EXCEPT !.changes =
                      DictSet(created, current_instance,
                              DictSet(ChangesOf(created, current_instance),
                                      StripPrefix(ev.name), ev.val))]

\* DlnaDmrEventContentHandler.endElement
endElement(handler, ev) ==
    IF ev.name = "InstanceID"
    THEN [handler EXCEPT !._current_instance = None]
    ELSE handler

\* DlnaDmrEventErrorHandler.error and fatalError: log, and return to the parser
error(handler) == handler
fatalError(handler) == handler

RECURSIVE ParseEvents_abort(_, _)
ParseEvents_abort(handler, text) ==
    IF text = <<>> THEN handler
    ELSE LET ev == Head(text)
         IN  CASE ev.kind = "start" ->
                    ParseEvents_abort(startElement(handler, ev), Tail(text))
               [] ev.kind = "end" ->
                    ParseEvents_abort(endElement(handler, ev), Tail(text))
               [] ev.kind = "error" -> ParseEvents_abort(error(handler), Tail(text))
               [] ev.kind = "fatal" -> NewContentHandler

RECURSIVE ParseEvents(_, _)
\* parseString(text, content_handler, error_handler): the handler after the
\* events; the parser goes on after a recoverable error and stops at a fatal
\* one, and returns as the error handler raises nothing
ParseEvents(handler, text) ==
    IF text = <<>> THEN handler
    ELSE LET ev == Head(text)
         IN  CASE ev.kind = "start" ->
                    ParseEvents(startElement(handler, ev), Tail(text))
               [] ev.kind = "end" ->
                    ParseEvents(endElement(handler, ev), Tail(text))
               [] ev.kind = "error" -> ParseEvents(error(handler), Tail(text))
               [] ev.kind = "fatal" -> fatalError(handler)

\* _parse_last_change_event
_parse_last_change_event(text) == ParseEvents(NewContentHandler, text).changes

-----------------------------------------------------------------------------
(* Notification dispatch.  The handlers run to completion; they work on    *)
(* h = [sv, ctm, uri, log]: the variable store, the two metadata caches    *)
(* and the calls made to the observer so far.                              *)

Heap(sv, ctm, uri) == [sv |-> sv, ctm |-> ctm, uri |-> uri, log |-> <<>>]

\* what the observer sees when it is called: the variables it is given and
\* the caches and their source variables at that moment
ObserverCall(h, service, names) ==
    [service |-> service, names |-> names,
     ctm |-> h.ctm, ctm_source |-> h.sv["CurrentTrackMetaData"].value,
     uri |-> h.uri, uri_source |-> h.sv["AVTransportURIMetaData"].value]

\* UpnpStateVariable.upnp_value = value, for each change of a variable the service models
RECURSIVE SetValues(_, _, _)
SetValues(sv, role, changes) ==
    IF changes = <<>> THEN sv
    ELSE LET name == Head(changes)[1]
             value == Head(changes)[2]
         IN  IF name \in VarNames /\ VarService(name) = role /\ sv[name].present
             THEN SetValues([sv EXCEPT ![name].value = value, ![name].updated_at = Now],
                            role, Tail(changes))
             ELSE SetValues(sv, role, Tail(changes))

\* the names of the changes a service took, in order
RECURSIVE ChangedNames(_, _, _)
ChangedNames(sv, role, changes) ==
    IF changes = <<>> THEN <<>>
    ELSE LET name == Head(changes)[1]
         IN  IF name \in VarNames /\ VarService(name) = role /\ sv[name].present
             THEN <<name>> \o ChangedNames(sv, role, Tail(changes))
             ELSE ChangedNames(sv, role, Tail(changes))

RECURSIVE _on_event(_, _, _, _, _)

\* UpnpService.notify_changed_state_variables: set the values, then call the
\* service's on_event, which the profile binds to DmrDevice._on_event
notify_changed_state_variables(h, cb, service, changes) ==
    _on_event([h EXCEPT !.sv = SetValues(h.sv, service, changes)], cb, service,
              ChangedNames(h.sv, service, changes), <<>>)

dlna_handle_notify_last_change_first(h, cb, service, event_data) ==
    LET changes == _parse_last_change_event(event_data)
    IN  IF event_data = <<>> THEN h
        ELSE IF changes = <<>> THEN h
        ELSE notify_changed_state_variables(h, cb, service, changes[1][2])

\* dlna_handle_notify_last_change, called on the LastChange variable whose value is event_data
dlna_handle_notify_last_change(h, cb, service, event_data) ==
    LET changes == _parse_last_change_event(event_data)
    IN  IF event_data = <<>> THEN h
        ELSE IF ~HasInstance(changes, "0") THEN h
        ELSE notify_changed_state_variables(h, cb, service, ChangesOf(changes, "0"))

_on_event_observer_first(h, cb, service, names, event_data) ==
    LET h0 == IF cb THEN [h EXCEPT !.log = Append(@, ObserverCall(h, service, names))]
              ELSE h
        h1 == IF "LastChange" \in Range(names)
              THEN dlna_handle_notify_last_change(h0, cb, service, event_data)
              ELSE h0
        avt == service_id(service) = AVT_SERVICE_ID
    IN  [h1 EXCEPT
           !.ctm = IF avt /\ "CurrentTrackMetaData" \in Range(names)
                   THEN _update_current_track_meta_data(
                            @, h1.sv["CurrentTrackMetaData"].value)
                   ELSE @,
           !.uri = IF avt /\ "AVTransportURIMetaData" \in Range(names)
                   THEN _update_av_transport_uri_metadata(
                            @, h1.sv["AVTransportURIMetaData"].value)
                   ELSE @]

\* DmrDevice._on_event(service, state_variables): names are the names of the
\* state variables given, event_data the value of LastChange when it is one of them
_on_event(h, cb, service, names, event_data) ==
    LET h1 == IF "LastChange" \in Range(names)
              THEN dlna_handle_notify_last_change(h, cb, service, event_data)
              ELSE h
        avt == service_id(service) = AVT_SERVICE_ID
        h2 == [h1 EXCEPT
                 !.ctm = IF avt /\ "CurrentTrackMetaData" \in Range(names)
                         THEN _update_current_track_meta_data(
                                  @, h1.sv["CurrentTrackMetaData"].value)
                         ELSE @,
                 !.uri = IF avt /\ "AVTransportURIMetaData" \in Range(names)
                         THEN _update_av_transport_uri_metadata(
                                  @, h1.sv["AVTransportURIMetaData"].value)
                         ELSE @]
    IN  IF cb THEN [h2 EXCEPT !.log = Append(@, ObserverCall(h2, service, names))]
        ELSE h2

-----------------------------------------------------------------------------
(* Reconciliation Loop: async_update.  The call is suspended at each await; *)
(* update.pc is the poll it waits for, update.polls the polls it has issued *)
(* and update.reached the source lines of the decisions it has taken.       *)

IdleFrame ==
    [call |-> 0, pc |-> "idle", do_ping |-> FALSE, polls |-> <<>>,
     pinged |-> FALSE, reached |-> {}]

Suspended == {"GetTransportInfo", "GetPositionInfo", "AVT_poll", "RC_poll", "async_ping"}

Poll(u, pc, names) == [u EXCEPT !.pc = pc, !.polls = @ \o names]

Line260_always(u, subscribed) ==
    LET u1 == [u EXCEPT !.reached = @ \cup {260}]
    IN  Poll(u1, "AVT_poll",
             <<"GetMediaInfo", "GetDeviceCapabilities", "GetTransportSettings">>)

\* async_update, lines 260-269, first part: the polls of the unsubscribed branch
Line260(u, subscribed) ==
    LET u1 == [u EXCEPT !.reached = @ \cup {260}]
    IN  IF ~subscribed
        THEN Poll(u1, "AVT_poll",
                  <<"GetMediaInfo", "GetDeviceCapabilities", "GetTransportSettings">>)
        ELSE [u1 EXCEPT !.pc = "done"]

Line251_playing_only(u, svcs, sv, subscribed) ==
    LET u1 == [u EXCEPT !.reached = @ \cup {251}]
    IN  IF transport_state(svcs, sv) \in {"PLAYING"}
        THEN Poll(u1, "GetPositionInfo", <<"GetPositionInfo">>)
        ELSE Line260(u1, subscribed)

\* async_update, lines 251-259: poll the position when playing or paused
Line251(u, svcs, sv, subscribed) ==
    LET u1 == [u EXCEPT !.reached = @ \cup {251}]
    IN  IF transport_state(svcs, sv) \in {"PLAYING", "PAUSED_PLAYBACK"}
        THEN Poll(u1, "GetPositionInfo", <<"GetPositionInfo">>)
        ELSE Line260(u1, subscribed)

Line243_unsubscribed_only(u, svcs, sv, subscribed) ==
    LET u1 == [u EXCEPT !.reached = @ \cup {243}]
    IN  IF _service(svcs, "AVT")
        THEN IF ~subscribed
             THEN Poll(u1, "GetTransportInfo", <<"GetTransportInfo">>)
             ELSE Line251(u1, svcs, sv, subscribed)
        ELSE IF u.do_ping
        THEN [u1 EXCEPT !.pc = "async_ping", !.pinged = TRUE]
        ELSE [u1 EXCEPT !.pc = "done"]

Line243_ping_always(u, svcs, sv, subscribed) ==
    LET u1 == [u EXCEPT !.reached = @ \cup {243}]
    IN  IF _service(svcs, "AVT")
        THEN IF ~subscribed \/ u.do_ping
             THEN Poll([u1 EXCEPT !.pinged = u.do_ping],
                       "GetTransportInfo", <<"GetTransportInfo">>)
             ELSE Line251(u1, svcs, sv, subscribed)
        ELSE IF u.do_ping
        THEN [u1 EXCEPT !.pc = "async_ping", !.pinged = TRUE]
        ELSE [u1 EXCEPT !.pc = "done"]

Line243_no_transport_info(u, svcs, sv, subscribed) ==
    LET u1 == [u EXCEPT !.reached = @ \cup {243}]
    IN  IF _service(svcs, "AVT")
        THEN Line251(u1, svcs, sv, subscribed)
        ELSE IF u.do_ping
        THEN [u1 EXCEPT !.pc = "async_ping", !.pinged = TRUE]
        ELSE [u1 EXCEPT !.pc = "done"]

\* async_update, lines 243-250 and 270-271: from the call to its first await
Line243(u, svcs, sv, subscribed) ==
    LET u1 == [u EXCEPT !.reached = @ \cup {243}]
    IN  IF _service(svcs, "AVT")
        THEN IF ~subscribed \/ u.do_ping
             THEN Poll(u1, "GetTransportInfo", <<"GetTransportInfo">>)
             ELSE Line251(u1, svcs, sv, subscribed)
        ELSE IF u.do_ping
        THEN [u1 EXCEPT !.pc = "async_ping", !.pinged = TRUE]
        ELSE [u1 EXCEPT !.pc = "done"]

\* async_update, from the return of the poll it awaited to its next await
Resume(u, svcs, sv, subscribed) ==
    CASE u.pc = "GetTransportInfo" -> Line251(u, svcs, sv, subscribed)
      [] u.pc = "GetPositionInfo"  -> Line260(u, subscribed)
      [] u.pc = "AVT_poll"         -> Poll(u, "RC_poll", <<"GetMute", "GetVolume">>)
      [] u.pc = "RC_poll"          -> [u EXCEPT !.pc = "done"]
      [] u.pc = "async_ping"       -> [u EXCEPT !.pc = "done"]

\* the service role a pending poll is made on
PollService(pc) == IF pc = "RC_poll" THEN "RC" ELSE "AVT"

\* the values a device may answer a poll with: <<variable, value>> of the
\* out arguments the model keeps
PollResults(pc) ==
    CASE pc = "GetTransportInfo" ->
             {<< <<"TransportState", v>> >> : v \in {"PLAYING", "paused_playback", "STOPPED"}}
      [] pc = "GetPositionInfo" ->
             {<< <<"CurrentTrackMetaData", v>> >> :
                 v \in {"NOT_IMPLEMENTED", "<DIDL><item id=A/></DIDL>"}}
      [] pc = "AVT_poll" ->
             {<< <<"AVTransportURIMetaData", "<DIDL><item id=B/><item id=A/></DIDL>">> >>}
      [] pc = "RC_poll" -> {<< <<"Volume", "5">> >>}
      [] OTHER -> {<<>>}

\* UpnpProfileDevice._async_poll_state_variables, from the answer on: store the
\* out arguments and hand the changed variables to _on_event
_async_poll_state_variables(h, cb, service, result) ==
    LET changed == ChangedNames(h.sv, service, result)
        h1 == [h EXCEPT !.sv = SetValues(h.sv, service, result)]
    IN  IF changed = <<>> THEN h1 ELSE _on_event(h1, cb, service, changed, <<>>)

\* a caller calls async_update(do_ping)
async_update(do_ping) ==
    /\ update.pc \notin Suspended
    /\ update' = Line243([IdleFrame EXCEPT !.call = 1 - update.call, !.do_ping = do_ping],
                         services, state_variables, is_subscribed)
    /\ UNCHANGED <<services, actions, state_variables, is_subscribed, on_event,
                   _current_track_meta_data, _av_transport_uri_meta_data,
                   notification, observed, command, wait>>

\* the awaited poll (or ping) returns and async_update runs on to its next await
PollReturn ==
    /\ update.pc \in Suspended
    /\ \E result \in PollResults(update.pc) :
         LET h == IF update.pc = "async_ping" \/ ~_service(services, PollService(update.pc))
                  THEN Heap(state_variables, _current_track_meta_data,
                            _av_transport_uri_meta_data)
                  ELSE _async_poll_state_variables(
                           Heap(state_variables, _current_track_meta_data,
                                _av_transport_uri_meta_data),
                           on_event, PollService(update.pc), result)
         IN  /\ state_variables' = h.sv
             /\ _current_track_meta_data' = h.ctm
             /\ _av_transport_uri_meta_data' = h.uri
             /\ observed' = h.log
             /\ update' = Resume(update, services, h.sv, is_subscribed)
    /\ UNCHANGED <<services, actions, is_subscribed, on_event, notification, command, wait>>

\* the awaited poll (or ping) raises: the error leaves async_update
PollRaise ==
    /\ update.pc \in Suspended
    /\ update' = [update EXCEPT !.pc = "raised"]
    /\ UNCHANGED <<services, actions, state_variables, is_subscribed, on_event,
                   _current_track_meta_data, _av_transport_uri_meta_data,
                   notification, observed, command, wait>>

\* the subscription to the device's events is made or lost
SetSubscribed(b) ==
    /\ is_subscribed # b
    /\ is_subscribed' = b
    /\ UNCHANGED <<services, actions, state_variables, on_event,
                   _current_track_meta_data, _av_transport_uri_meta_data,
                   update, notification, observed, command, wait>>

-----------------------------------------------------------------------------
(* Notifications.  An event names a service, the variables the device sent *)
(* by name with their values, and the LastChange payload if it sent one.   *)

Event(service, direct, event_data) ==
    [service |-> service, direct |-> direct, event_data |-> event_data]

NoEvent == Event("AVT", <<>>, <<>>)
NoCommand == [name |-> None, outcome |-> None, invoked |-> <<>>]

\* the frame of async_wait_for_can_play: where the call is ("idle" before any
\* call, "sleeping" at its await, "done" once returned), the number of loop
\* rounds it was given, what each permission check it made has found, and the
\* sleeps it has begun; call tells one call from the next
IdleWait == [call |-> 0, pc |-> "idle", count |-> 0, checks |-> <<>>, sleeps |-> 0]

RECURSIVE Keys(_)
Keys(d) == IF d = <<>> THEN <<>> ELSE <<Head(d)[1]>> \o Keys(Tail(d))

\* the state variables handed to _on_event for an event
EventNames(ev) ==
    (IF ev.event_data = <<>> THEN <<>> ELSE <<"LastChange">>) \o Keys(ev.direct)

\* notification, observed and command only record what happened, for the claims:
\* Settle clears the record, and an event or a command is taken once it is clear
Clear == notification = NoEvent /\ observed = <<>> /\ command = NoCommand

\* an event arrives: the event layer stores the values sent and calls _on_event
Notify(ev) ==
    /\ Clear
    /\ _service(services, ev.service)
    /\ LET h == _on_event(Heap(SetValues(state_variables, ev.service, ev.direct),
                               _current_track_meta_data, _av_transport_uri_meta_data),
                          on_event, ev.service, EventNames(ev), ev.event_data)
       IN  /\ state_variables' = h.sv
           /\ _current_track_meta_data' = h.ctm
           /\ _av_transport_uri_meta_data' = h.uri
           /\ observed' = h.log
    /\ notification' = ev
    /\ UNCHANGED <<services, actions, is_subscribed, on_event, update, command, wait>>

\* the record of the last notification, of the observer's calls and of the last
\* command is cleared
Settle ==
    /\ notification # NoEvent \/ observed # <<>> \/ command # NoCommand
    /\ notification' = NoEvent
    /\ observed' = <<>>
    /\ command' = NoCommand
    /\ UNCHANGED <<services, actions, state_variables, is_subscribed, on_event,
                   _current_track_meta_data, _av_transport_uri_meta_data, update, wait>>

\* the payloads of at most MaxPayloadLen SAX events over an alphabet
PayloadsOver(alphabet) == UNION {[1..n -> alphabet] : n \in 0..MaxPayloadLen}

\* a device whose services model every variable of the store
AllVariables == [n \in VarNames |-> FreshVar]

AllActions ==
    {"Pause", "Play", "Stop", "Next", "Previous", "Seek", "SetPlayMode",
     "SelectPreset", "SetMute", "SetVolume", "SetVolume.DesiredVolume",
     "SetBrightness", "SetBrightness.DesiredBrightness",
     "SetContrast", "SetContrast.DesiredContrast",
     "SetSharpness", "SetSharpness.DesiredSharpness",
     "SetColorTemperature", "SetColorTemperature.DesiredColorTemperature",
     "SetAVTransportURI", "SetNextAVTransportURI", "GetProtocolInfo"}

-----------------------------------------------------------------------------
(* Seek modes.                                                             *)

\* DmrDevice._has_seek_with_mode
_has_seek_with_mode(svcs, acts, sv, mode) ==
    LET state_var == _state_variable(svcs, sv, "AVT", "A_ARG_TYPE_SeekMode")
        seek_modes == {Strip(Lower(m)) : m \in Range(state_var.allowed_values)}
    IN  IF ~_action(svcs, acts, "AVT", "Seek") \/ ~state_var.present THEN FALSE
        ELSE Lower(mode) \in seek_modes

\* DmrDevice.has_seek_abs_time, has_seek_rel_time
has_seek_abs_time(svcs, acts, sv) == _has_seek_with_mode(svcs, acts, sv, "ABS_TIME")
has_seek_rel_time(svcs, acts, sv) == _has_seek_with_mode(svcs, acts, sv, "REL_TIME")

\* DmrDevice.can_seek_abs_time, can_seek_rel_time
can_seek_abs_time(svcs, acts, sv) ==
    has_seek_abs_time(svcs, acts, sv) /\ _can_transport_action(svcs, sv, "seek")
can_seek_rel_time(svcs, acts, sv) ==
    has_seek_rel_time(svcs, acts, sv) /\ _can_transport_action(svcs, sv, "seek")

-----------------------------------------------------------------------------
(* Command methods.  A command runs from its call to the device action it  *)
(* invokes without suspending; its result is [name, outcome, invoked]:     *)
(* outcome "returned", "UpnpError" (raised by the profile for a missing    *)
(* action or argument), "device_error" (raised by the action invoked) or   *)
(* "Exception" (any other error), and invoked the device actions invoked.  *)

Result(name, outcome, invoked) ==
    [name |-> name, outcome |-> outcome, invoked |-> invoked]

\* action.async_call(**args): the action, one argument that tells the calls
\* of an action apart, and the level sent if any
Invocation(action, arg, level) == [action |-> action, arg |-> arg, level |-> level]

\* how an invoked device action may end
ActionAnswers == {"returned", "device_error"}

\* DmrDevice.async_pause
async_pause(svcs, acts, sv, answer) ==
    IF ~_can_transport_action(svcs, sv, "pause")
    THEN Result("async_pause", "returned", <<>>)
    ELSE IF ~_action(svcs, acts, "AVT", "Pause")
    THEN Result("async_pause", "UpnpError", <<>>)
    ELSE Result("async_pause", answer, <<Invocation("Pause", None, 0)>>)

\* DmrDevice.async_play
async_play(svcs, acts, sv, answer) ==
    IF ~_can_transport_action(svcs, sv, "play")
    THEN Result("async_play", "returned", <<>>)
    ELSE IF ~_action(svcs, acts, "AVT", "Play")
    THEN Result("async_play", "UpnpError", <<>>)
    ELSE Result("async_play", answer, <<Invocation("Play", "1", 0)>>)

\* DmrDevice.async_stop
async_stop(svcs, acts, sv, answer) ==
    IF ~_can_transport_action(svcs, sv, "stop")
    THEN Result("async_stop", "returned", <<>>)
    ELSE IF ~_action(svcs, acts, "AVT", "Stop")
    THEN Result("async_stop", "UpnpError", <<>>)
    ELSE Result("async_stop", answer, <<Invocation("Stop", None, 0)>>)

\* DmrDevice.async_previous
async_previous(svcs, acts, sv, answer) ==
    IF ~_can_transport_action(svcs, sv, "previous")
    THEN Result("async_previous", "returned", <<>>)
    ELSE IF ~_action(svcs, acts, "AVT", "Previous")
    THEN Result("async_previous", "UpnpError", <<>>)
    ELSE Result("async_previous", answer, <<Invocation("Previous", None, 0)>>)

\* DmrDevice.async_next
async_next(svcs, acts, sv, answer) ==
    IF ~_can_transport_action(svcs, sv, "next")
    THEN Result("async_next", "returned", <<>>)
    ELSE IF ~_action(svcs, acts, "AVT", "Next")
    THEN Result("async_next", "UpnpError", <<>>)
    ELSE Result("async_next", answer, <<Invocation("Next", None, 0)>>)

async_seek_abs_time_listed(svcs, acts, sv, answer) ==
    IF ~can_seek_abs_time(svcs, acts, sv)
    THEN Result("async_seek_abs_time", "returned", <<>>)
    ELSE IF ~_action(svcs, acts, "AVT", "Seek")
    THEN Result("async_seek_abs_time", "UpnpError", <<>>)
    ELSE Result("async_seek_abs_time", answer, <<Invocation("Seek", "ABS_TIME", 0)>>)

\* DmrDevice.async_seek_abs_time
async_seek_abs_time(svcs, acts, sv, answer) ==
    IF ~_can_transport_action(svcs, sv, "seek")
    THEN Result("async_seek_abs_time", "returned", <<>>)
    ELSE IF ~_action(svcs, acts, "AVT", "Seek")
    THEN Result("async_seek_abs_time", "UpnpError", <<>>)
    ELSE Result("async_seek_abs_time", answer, <<Invocation("Seek", "ABS_TIME", 0)>>)

\* DmrDevice.async_seek_rel_time
async_seek_rel_time(svcs, acts, sv, answer) ==
    IF ~_can_transport_action(svcs, sv, "seek")
    THEN Result("async_seek_rel_time", "returned", <<>>)
    ELSE IF ~_action(svcs, acts, "AVT", "Seek")
    THEN Result("async_seek_rel_time", "UpnpError", <<>>)
    ELSE Result("async_seek_rel_time", answer, <<Invocation("Seek", "REL_TIME", 0)>>)

\* DmrDevice.has_pause, has_play, has_stop, has_previous, has_next
has_pause(svcs, acts) == _action(svcs, acts, "AVT", "Pause")
has_play(svcs, acts) == _action(svcs, acts, "AVT", "Play")
has_stop(svcs, acts) == _action(svcs, acts, "AVT", "Stop")
has_previous(svcs, acts) == _action(svcs, acts, "AVT", "Previous")
has_next(svcs, acts) == _action(svcs, acts, "AVT", "Next")

\* DmrDevice.can_pause, can_play, can_stop, can_previous, can_next
can_pause(svcs, acts, sv) == has_pause(svcs, acts) /\ _can_transport_action(svcs, sv, "pause")
can_play(svcs, acts, sv) == has_play(svcs, acts) /\ _can_transport_action(svcs, sv, "play")
can_stop(svcs, acts, sv) == has_stop(svcs, acts) /\ _can_transport_action(svcs, sv, "stop")
can_previous(svcs, acts, sv) ==
    has_previous(svcs, acts) /\ _can_transport_action(svcs, sv, "previous")
can_next(svcs, acts, sv) == has_next(svcs, acts) /\ _can_transport_action(svcs, sv, "next")

\* DmrDevice.async_set_play_mode
async_set_play_mode(svcs, acts, mode, answer) ==
    IF ~_action(svcs, acts, "AVT", "SetPlayMode")
    THEN Result("async_set_play_mode", "UpnpError", <<>>)
    ELSE Result("async_set_play_mode", answer, <<Invocation("SetPlayMode", mode, 0)>>)

\* DmrDevice.async_select_preset
async_select_preset(svcs, acts, preset_name, answer) ==
    IF ~_action(svcs, acts, "RC", "SelectPreset")
    THEN Result("async_select_preset", "UpnpError", <<>>)
    ELSE Result("async_select_preset", answer,
                <<Invocation("SelectPreset", preset_name, 0)>>)

async_mute_volume_unchecked(svcs, acts, mute, answer) ==
    Result("async_mute_volume", answer,
           <<Invocation("SetMute", IF mute THEN "True" ELSE "False", 0)>>)

\* DmrDevice.async_mute_volume
async_mute_volume(svcs, acts, mute, answer) ==
    IF ~_action(svcs, acts, "RC", "SetMute")
    THEN Result("async_mute_volume", "UpnpError", <<>>)
    ELSE Result("async_mute_volume", answer,
                <<Invocation("SetMute", IF mute THEN "True" ELSE "False", 0)>>)

\* f"Set{var_name}" and the key of its argument f"Desired{var_name}" in actions
SetAction(var_name) ==
    CASE var_name = "Brightness"       -> "SetBrightness"
      [] var_name = "Contrast"         -> "SetContrast"
      [] var_name = "Sharpness"        -> "SetSharpness"
      [] var_name = "ColorTemperature" -> "SetColorTemperature"
      [] var_name = "Volume"           -> "SetVolume"
      [] var_name = "Mute"             -> "SetMute"
DesiredArgument(var_name) ==
    CASE var_name = "Brightness"       -> "SetBrightness.DesiredBrightness"
      [] var_name = "Contrast"         -> "SetContrast.DesiredContrast"
      [] var_name = "Sharpness"        -> "SetSharpness.DesiredSharpness"
      [] var_name = "ColorTemperature" -> "SetColorTemperature.DesiredColorTemperature"
      [] var_name = "Volume"           -> "SetVolume.DesiredVolume"

\* int(x) of the quotient a / b, b > 0: rounds towards zero
TruncDiv(a, b) == IF a >= 0 THEN a \div b ELSE -((-a) \div b)

\* DmrDevice._async_set_level; the level is given in hundredths
_async_set_level(svcs, acts, sv, var_name, level, answer) ==
    LET state_variable == _state_variable(svcs, sv, "RC", var_name)
        min_ == state_variable.min_value
        max_ == IF state_variable.max_value = 0 THEN 100 ELSE state_variable.max_value
        desired_level == TruncDiv(min_ * 100 + level * (max_ - min_), 100)
    IN  IF ~_action(svcs, acts, "RC", SetAction(var_name))
        THEN Result(SetAction(var_name), "UpnpError", <<>>)
        ELSE IF DesiredArgument(var_name) \notin acts
        THEN Result(SetAction(var_name), "UpnpError", <<>>)
        ELSE Result(SetAction(var_name), answer,
                    <<Invocation(SetAction(var_name),
                                 IF var_name = "Volume" THEN "Master" ELSE None,
                                 desired_level)>>)

\* DmrDevice.async_set_brightness_level, async_set_contrast_level,
\* async_set_sharpness_level, async_set_color_temperature_level, async_set_volume_level
async_set_brightness_level(svcs, acts, sv, brightness, answer) ==
    _async_set_level(svcs, acts, sv, "Brightness", brightness, answer)
async_set_contrast_level(svcs, acts, sv, contrast, answer) ==
    _async_set_level(svcs, acts, sv, "Contrast", contrast, answer)
async_set_sharpness_level(svcs, acts, sv, sharpness, answer) ==
    _async_set_level(svcs, acts, sv, "Sharpness", sharpness, answer)
async_set_color_temperature_level(svcs, acts, sv, color_temperature, answer) ==
    _async_set_level(svcs, acts, sv, "ColorTemperature", color_temperature, answer)
async_set_volume_level(svcs, acts, sv, volume, answer) ==
    _async_set_level(svcs, acts, sv, "Volume", volume, answer)

-----------------------------------------------------------------------------
(* Capability predicates of the rendering and play-mode controls.          *)

\* DmrDevice._supports
_supports(svcs, acts, sv, var_name) ==
    /\ _state_variable(svcs, sv, "RC", var_name).present
    /\ _action(svcs, acts, "RC", SetAction(var_name))

\* DmrDevice.has_brightness_level, has_contrast_level, has_sharpness_level,
\* has_color_temperature_level, has_volume_level, has_volume_mute
has_brightness_level(svcs, acts, sv) == _supports(svcs, acts, sv, "Brightness")
has_contrast_level(svcs, acts, sv) == _supports(svcs, acts, sv, "Contrast")
has_sharpness_level(svcs, acts, sv) == _supports(svcs, acts, sv, "Sharpness")
has_color_temperature_level(svcs, acts, sv) == _supports(svcs, acts, sv, "ColorTemperature")
has_volume_level(svcs, acts, sv) == _supports(svcs, acts, sv, "Volume")
has_volume_mute(svcs, acts, sv) == _supports(svcs, acts, sv, "Mute")

\* DmrDevice.has_presets
has_presets(svcs, acts, sv) ==
    /\ _state_variable(svcs, sv, "RC", "PresetNameList").present
    /\ _action(svcs, acts, "RC", "SelectPreset")

\* DmrDevice.preset_names: [raised, names]
preset_names(svcs, sv) ==
    LET state_var == _state_variable(svcs, sv, "RC", "PresetNameList")
        parts == SplitComma(state_var.value)
    IN  IF ~state_var.present THEN [raised |-> TRUE, names |-> <<>>]
        ELSE IF state_var.value = None THEN [raised |-> FALSE, names |-> <<>>]
        ELSE [raised |-> FALSE, names |-> [i \in DOMAIN parts |-> Strip(parts[i])]]

\* DmrDevice.has_play_mode
has_play_mode(svcs, acts, sv) ==
    /\ _state_variable(svcs, sv, "AVT", "CurrentPlayMode").present
    /\ _action(svcs, acts, "AVT", "SetPlayMode")

-----------------------------------------------------------------------------
(* Media Descriptor Builder.                                               *)

\* an answer to requester.async_http_request: it raises, or has a status and
\* the two headers the builder reads (None when the header is not sent)
Response(status, content_type, content_features) ==
    [raises |-> FALSE, status |-> status,
     content_type |-> content_type, content_features |-> content_features]
RequestRaises ==
    [raises |-> TRUE, status |-> 0, content_type |-> None, content_features |-> None]

\* an answer to CM/GetProtocolInfo: it raises, or gives the Source and Sink
\* lists; an entry is given as entry.split(":"), the list of its fields
ProtocolInfo(source, sink) == [raises |-> FALSE, source |-> source, sink |-> sink]
ProtocolInfoRaises == [raises |-> TRUE, source |-> <<>>, sink |-> <<>>]

_fetch_headers_no_retry(head, get) ==
    IF head.raises
    THEN [raised |-> TRUE, found |-> FALSE, headers |-> head, requests |-> <<"HEAD">>]
    ELSE IF 200 <= head.status /\ head.status < 300
    THEN [raised |-> FALSE, found |-> TRUE, headers |-> head, requests |-> <<"HEAD">>]
    ELSE [raised |-> FALSE, found |-> FALSE, headers |-> head, requests |-> <<"HEAD">>]

\* DmrDevice._fetch_headers: [raised, found, headers, requests]
_fetch_headers(head, get) ==
    IF head.raises
    THEN [raised |-> TRUE, found |-> FALSE, headers |-> head, requests |-> <<"HEAD">>]
    ELSE IF 200 <= head.status /\ head.status < 300
    THEN [raised |-> FALSE, found |-> TRUE, headers |-> head, requests |-> <<"HEAD">>]
    ELSE IF get.raises
    THEN [raised |-> TRUE, found |-> FALSE, headers |-> get, requests |-> <<"HEAD", "GET">>]
    ELSE IF 200 <= get.status /\ get.status < 300
    THEN [raised |-> FALSE, found |-> TRUE, headers |-> get, requests |-> <<"HEAD", "GET">>]
    ELSE [raised |-> FALSE, found |-> FALSE, headers |-> get, requests |-> <<"HEAD", "GET">>]

\* mimetypes.guess_type(media_url.split("?")[0])[0]
guess_type(media_url) ==
    CASE media_url = "http://host/a.mp3"       -> "audio/mpeg"
      [] media_url = "http://host/a.mp4?x=1"   -> "video/mp4"
      [] media_url = "http://host/a.mp4?x%3D1" -> "video/mp4"
      [] OTHER                                 -> None

\* urlunparse([scheme, netloc, path, "", quote_plus(query), ""]) of urlparse(media_url)
EscapeUrl(media_url) ==
    CASE media_url = "http://host/a.mp4?x=1" -> "http://host/a.mp4?x%3D1"
      [] media_url = "http://host/a#top"     -> "http://host/a"
      [] OTHER                               -> media_url

\* the class of MIME_TO_UPNP_CLASS_MAPPING whose key the lower-cased mime type
\* starts with, None if there is none
MimeToUpnpClass(mime_type) ==
    CASE mime_type = "audio/mpeg" -> "object.item.audioItem"
      [] mime_type = "video/mp4"  -> "object.item.videoItem"
      [] mime_type = "image/jpeg" -> "object.item.imageItem"
      [] OTHER                    -> None

\* didl_lite.type_by_upnp_class(upnp_class) is not None
KnownUpnpClass(upnp_class) ==
    upnp_class \in {"object.item", "object.item.audioItem", "object.item.videoItem",
                    "object.item.imageItem"}

\* DmrDevice.has_get_protocol_info
has_get_protocol_info(svcs, acts) == _action(svcs, acts, "CM", "GetProtocolInfo")

\* DmrDevice._async_get_sink_protocol_info_for_mime_type: [raised, entries]
_async_get_sink_protocol_info_for_mime_type(protocol_info, mime_type) ==
    LET source == protocol_info.source
        with_colon == {i \in DOMAIN source : Len(source[i]) >= 2}
    IN  IF protocol_info.raises THEN [raised |-> "device_error", entries |-> <<>>]
        ELSE IF \E i \in with_colon : Len(source[i]) < 3
        THEN [raised |-> "Exception", entries |-> <<>>]
        ELSE [raised |-> None,
              entries |-> SelectSeq(source, LAMBDA entry :
                                      Len(entry) >= 3 /\ entry[3] = mime_type)]

NoOverrides ==
    [mime_type |-> None, upnp_class |-> None, dlna_features |-> None,
     default_mime_type |-> None, default_upnp_class |-> None]

\* DmrDevice.construct_play_media_metadata: [raised, invoked, requests,
\* mime_type, dlna_features, upnp_class], the last three being what the
\* description holds; resolved_mime_type and probed_features are the values of
\* mime_type and dlna_features when line 861 is reached, asked tells whether
\* the sink protocol info was asked for
construct_play_media_metadata(svcs, acts, media_url, o, head, get, protocol_info) ==
    LET probe == None \in {o.mime_type, o.dlna_features}
        fetched == _fetch_headers(head, get)
        headers == fetched.headers
        usable == probe /\ ~fetched.raised /\ fetched.found
                    /\ (headers.content_type # None \/ headers.content_features # None)
        mime_type1 ==
            IF usable /\ o.mime_type \in {None, ""} /\ headers.content_type # None
            THEN headers.content_type
            ELSE IF o.mime_type = None THEN "" ELSE o.mime_type
        dlna_features1 ==
            IF usable /\ o.dlna_features \in {None, ""} /\ headers.content_features # None
            THEN headers.content_features
            ELSE IF o.dlna_features \in {None, ""} THEN "*" ELSE o.dlna_features
        mime_type2 ==
            IF probe /\ mime_type1 = ""
            THEN IF guess_type(media_url) \notin {None, ""} THEN guess_type(media_url)
                 ELSE IF o.default_mime_type \in {None, ""} THEN "application/octet-stream"
                 ELSE o.default_mime_type
            ELSE mime_type1
        ask == probe /\ o.dlna_features \in {None, ""} /\ dlna_features1 # "*"
                 /\ has_get_protocol_info(svcs, acts)
        sink == _async_get_sink_protocol_info_for_mime_type(protocol_info, mime_type2)
        entries == sink.entries
        invoked == IF ask THEN <<Invocation("GetProtocolInfo", None, 0)>> ELSE <<>>
        requests == IF probe THEN fetched.requests ELSE <<>>
        dlna_features2 ==
            IF ask /\ sink.raised = None
                   /\ (\E i \in DOMAIN entries : Len(entries[i]) >= 4 /\ entries[i][4] = "*")
            THEN "*" ELSE dlna_features1
        mime_type3 == IF o.upnp_class \in {None, ""} THEN Lower(mime_type2) ELSE mime_type2
        upnp_class ==
            IF o.upnp_class \notin {None, ""} THEN o.upnp_class
            ELSE IF MimeToUpnpClass(mime_type3) # None THEN MimeToUpnpClass(mime_type3)
            ELSE IF o.default_upnp_class \in {None, ""} THEN "object.item"
            ELSE o.default_upnp_class
        built(raised) ==
            [raised |-> raised, invoked |-> invoked, requests |-> requests,
             mime_type |-> mime_type3, dlna_features |-> dlna_features2,
             upnp_class |-> upnp_class, resolved_mime_type |-> mime_type2,
             probed_features |-> dlna_features1, asked |-> ask]
    IN  IF ask /\ sink.raised # None THEN built(sink.raised)
        ELSE IF ask /\ (\E i \in DOMAIN entries : Len(entries[i]) < 4)
        THEN built("Exception")
        ELSE IF ~KnownUpnpClass(upnp_class) THEN built("UpnpError")
        ELSE built(None)

\* DmrDevice.async_set_transport_uri; meta_data_is_str: the caller gave the
\* description as text
async_set_transport_uri(svcs, acts, media_url, meta_data_is_str, head, get, protocol_info, answer) ==
    LET escaped == EscapeUrl(media_url)
        meta_data == construct_play_media_metadata(svcs, acts, escaped, NoOverrides,
                                                   head, get, protocol_info)
        invoked == IF meta_data_is_str THEN <<>> ELSE meta_data.invoked
    IN  IF ~meta_data_is_str /\ meta_data.raised # None
        THEN Result("async_set_transport_uri", meta_data.raised, invoked)
        ELSE IF ~_action(svcs, acts, "AVT", "SetAVTransportURI")
        THEN Result("async_set_transport_uri", "UpnpError", invoked)
        ELSE Result("async_set_transport_uri", answer,
                    Append(invoked, Invocation("SetAVTransportURI", escaped, 0)))

\* DmrDevice.async_set_next_transport_uri
async_set_next_transport_uri(svcs, acts, media_url, meta_data_is_str, head, get, protocol_info, answer) ==
    LET escaped == EscapeUrl(media_url)
        meta_data == construct_play_media_metadata(svcs, acts, escaped, NoOverrides,
                                                   head, get, protocol_info)
        invoked == IF meta_data_is_str THEN <<>> ELSE meta_data.invoked
    IN  IF ~meta_data_is_str /\ meta_data.raised # None
        THEN Result("async_set_next_transport_uri", meta_data.raised, invoked)
        ELSE IF ~_action(svcs, acts, "AVT", "SetNextAVTransportURI")
        THEN Result("async_set_next_transport_uri", "UpnpError", invoked)
        ELSE Result("async_set_next_transport_uri", answer,
                    Append(invoked, Invocation("SetNextAVTransportURI", escaped, 0)))

-----------------------------------------------------------------------------
(* The update loop with notifications and subscription changes around it.  *)

UpdateEvents ==
    {Event("AVT", <<>>, <<StartElement("TransportState", v, None)>>) :
        v \in {"PLAYING", "STOPPED"}}

InitUpdate ==
    /\ services \in {{"AVT", "RC", "CM"}, {"RC", "CM"}}
    /\ actions = AllActions
    /\ state_variables \in
         {AllVariables, [AllVariables EXCEPT !["TransportState"] = NoVar]}
    /\ is_subscribed \in BOOLEAN
    /\ on_event = TRUE
    /\ _current_track_meta_data = None
    /\ _av_transport_uri_meta_data = None
    /\ update = IdleFrame
    /\ notification = NoEvent
    /\ observed = <<>>
    /\ command = NoCommand
    /\ wait = IdleWait

NextUpdate ==
    \/ \E do_ping \in BOOLEAN : async_update(do_ping)
    \/ PollReturn
    \/ PollRaise
    \/ \E b \in BOOLEAN : SetSubscribed(b)
    \/ \E ev \in UpdateEvents : Notify(ev)
    \/ Settle

SpecUpdate == InitUpdate /\ [][NextUpdate]_vars

-----------------------------------------------------------------------------
(* LastChange payloads with instance scopes.                               *)

ItemA == "<DIDL><item id=A/></DIDL>"
ItemBA == "<DIDL><item id=B/><item id=A/></DIDL>"

InstanceAlphabet ==
    {StartElement("InstanceID", "0", None),
     StartElement("InstanceID", "5", None),
     StartElement("InstanceID", "", None),
     EndElement("InstanceID"),
     StartElement("avt:TransportState", "PLAYING", None),
     StartElement("CurrentTrackMetaData", ItemA, None)}

LastChangeEvents == {Event("AVT", <<>>, p) : p \in PayloadsOver(InstanceAlphabet) \ {<<>>}}

InitLastChange ==
    /\ services = {"AVT", "RC", "CM"}
    /\ actions = AllActions
    /\ state_variables = AllVariables
    /\ is_subscribed = TRUE
    /\ on_event = TRUE
    /\ _current_track_meta_data = None
    /\ _av_transport_uri_meta_data = None
    /\ update = IdleFrame
    /\ notification = NoEvent
    /\ observed = <<>>
    /\ command = NoCommand
    /\ wait = IdleWait

NextLastChange ==
    \/ \E ev \in LastChangeEvents : Notify(ev)
    \/ Settle

SpecLastChange == InitLastChange /\ [][NextLastChange]_vars

-----------------------------------------------------------------------------
(* Notifications that carry the metadata variables, by name or in a        *)
(* LastChange payload, from either service.                                *)

XmlValues ==
    {None, "", "NOT_IMPLEMENTED", "<garbage", "<DIDL><desc/></DIDL>", ItemA, ItemBA}

MetaDataAlphabet ==
    {StartElement("avt:CurrentTrackMetaData", ItemA, None),
     StartElement("CurrentTrackMetaData", "NOT_IMPLEMENTED", None),
     StartElement("AVTransportURIMetaData", ItemBA, None)}

MetaDataEvents ==
    {ev \in {Event(service, direct, p) :
                service \in {"AVT", "RC"},
                direct \in {<<>>}
                    \cup {<< <<"CurrentTrackMetaData", v>> >> : v \in XmlValues}
                    \cup {<< <<"AVTransportURIMetaData", v>> >> : v \in {"NOT_IMPLEMENTED", ItemA}},
                p \in PayloadsOver(MetaDataAlphabet)} :
        ev.direct # <<>> \/ ev.event_data # <<>>}

InitCache ==
    /\ services = {"AVT", "RC", "CM"}
    /\ actions = AllActions
    /\ state_variables = AllVariables
    /\ is_subscribed = TRUE
    /\ on_event \in BOOLEAN
    /\ _current_track_meta_data = None
    /\ _av_transport_uri_meta_data = None
    /\ update = IdleFrame
    /\ notification = NoEvent
    /\ observed = <<>>
    /\ command = NoCommand
    /\ wait = IdleWait

NextCache ==
    \/ \E ev \in MetaDataEvents : Notify(ev)
    \/ Settle

SpecCache == InitCache /\ [][NextCache]_vars

-----------------------------------------------------------------------------
(* Commands, with notifications of CurrentTransportActions between them.   *)

\* a caller calls a command method, which ends with the given result
Call(result) ==
    /\ Clear
    /\ command' = result
    /\ UNCHANGED <<services, actions, state_variables, is_subscribed, on_event,
                   _current_track_meta_data, _av_transport_uri_meta_data,
                   update, notification, observed, wait>>

TransportActionsAlphabet ==
    {StartElement("CurrentTransportActions", v, None) :
        v \in {"", "Play,Stop", "PLAY, Stop, Pause ", "Next,Previous,Seek"}}

CommandEvents ==
    {Event("AVT", <<>>, p) : p \in PayloadsOver(TransportActionsAlphabet) \ {<<>>}}

DeviceProfiles ==
    {AllActions, {}, {"GetProtocolInfo"}, AllActions \ {"GetProtocolInfo"},
     AllActions \ {"SetVolume.DesiredVolume"}}

LevelInputs == {0, 50, 100}
MediaUrls == {"http://host/a.mp3", "http://host/a.mp4?x=1", "http://host/a#top"}
HeadAnswers ==
    {RequestRaises, Response(405, None, None), Response(200, "video/mp4", None),
     Response(200, None, "DLNA.ORG_PN=MP3")}
GetAnswers ==
    {RequestRaises, Response(404, None, None),
     Response(200, "Audio/MPEG", "DLNA.ORG_PN=MP3")}
ProtocolInfoAnswers ==
    {ProtocolInfoRaises,
     ProtocolInfo(<< <<"http-get", "*", "audio/mpeg", "*">> >>, <<>>),
     ProtocolInfo(<<>>, << <<"http-get", "*", "audio/mpeg", "*">> >>),
     ProtocolInfo(<< <<"http-get", "*">> >>, <<>>)}

InitCommands ==
    /\ services \in {{"AVT", "RC", "CM"}, {"RC", "CM"}}
    /\ actions \in DeviceProfiles
    /\ state_variables \in
         {AllVariables, [AllVariables EXCEPT !["CurrentTransportActions"] = NoVar]}
    /\ is_subscribed = TRUE
    /\ on_event = FALSE
    /\ _current_track_meta_data = None
    /\ _av_transport_uri_meta_data = None
    /\ update = IdleFrame
    /\ notification = NoEvent
    /\ observed = <<>>
    /\ command = NoCommand
    /\ wait = IdleWait

NextCommands ==
    \/ \E ev \in CommandEvents : Notify(ev)
    \/ Settle
    \/ \E answer \in ActionAnswers :
          Call(async_pause(services, actions, state_variables, answer))
    \/ \E answer \in ActionAnswers :
          Call(async_play(services, actions, state_variables, answer))
    \/ \E answer \in ActionAnswers :
          Call(async_stop(services, actions, state_variables, answer))
    \/ \E answer \in ActionAnswers :
          Call(async_previous(services, actions, state_variables, answer))
    \/ \E answer \in ActionAnswers :
          Call(async_next(services, actions, state_variables, answer))
    \/ \E answer \in ActionAnswers :
          Call(async_seek_abs_time(services, actions, state_variables, answer))
    \/ \E answer \in ActionAnswers :
          Call(async_seek_rel_time(services, actions, state_variables, answer))
    \/ \E answer \in ActionAnswers, mode \in {"NORMAL", "SHUFFLE"} :
          Call(async_set_play_mode(services, actions, mode, answer))
    \/ \E answer \in ActionAnswers :
          Call(async_select_preset(services, actions, "FactoryDefaults", answer))
    \/ \E answer \in ActionAnswers, mute \in BOOLEAN :
          Call(async_mute_volume(services, actions, mute, answer))
    \/ \E answer \in ActionAnswers, level \in LevelInputs :
          Call(async_set_brightness_level(services, actions, state_variables, level, answer))
    \/ \E answer \in ActionAnswers, level \in LevelInputs :
          Call(async_set_contrast_level(services, actions, state_variables, level, answer))
    \/ \E answer \in ActionAnswers, level \in LevelInputs :
          Call(async_set_sharpness_level(services, actions, state_variables, level, answer))
    \/ \E answer \in ActionAnswers, level \in LevelInputs :
          Call(async_set_color_temperature_level(services, actions, state_variables,
                                                 level, answer))
    \/ \E answer \in ActionAnswers, level \in LevelInputs :
          Call(async_set_volume_level(services, actions, state_variables, level, answer))
    \/ \E answer \in ActionAnswers, media_url \in MediaUrls, is_str \in BOOLEAN,
          head \in HeadAnswers, get \in GetAnswers, protocol_info \in ProtocolInfoAnswers :
          Call(async_set_transport_uri(services, actions, media_url, is_str,
                                       head, get, protocol_info, answer))
    \/ \E answer \in ActionAnswers, media_url \in MediaUrls, is_str \in BOOLEAN,
          head \in HeadAnswers, get \in GetAnswers, protocol_info \in ProtocolInfoAnswers :
          Call(async_set_next_transport_uri(services, actions, media_url, is_str,
                                            head, get, protocol_info, answer))

SpecCommands == InitCommands /\ [][NextCommands]_vars

-----------------------------------------------------------------------------
(* Level accessors.  A level variable holds the text the device sent; its  *)
(* value is the number that text denotes.  A fraction is kept exact, as    *)
(* num / den with den > 0.                                                 *)

\* the numbers a level variable of the model may hold
Numbers == -300..300

\* UpnpStateVariable.value of a numeric variable: the number its text denotes
Number(text) == CHOOSE n \in Numbers : ToString(n) = text

\* what a level accessor gives: raises UpnpError, or returns None, or a fraction
LevelRaises == [raised |-> TRUE, none |-> FALSE, num |-> 0, den |-> 1]
LevelNone == [raised |-> FALSE, none |-> TRUE, num |-> 0, den |-> 1]
Fraction(num, den) == [raised |-> FALSE, none |-> FALSE, num |-> num, den |-> den]

\* DmrDevice._level
_level(svcs, sv, var_name) ==
    LET state_var == _state_variable(svcs, sv, "RC", var_name)
        value == Number(state_var.value)
        max_value == IF state_var.max_value = 0 THEN 100 ELSE state_var.max_value
    IN  IF ~state_var.present THEN LevelRaises
        ELSE IF state_var.value = None THEN LevelNone
        ELSE IF value * 1 <= 1 * max_value THEN Fraction(value, max_value)
        ELSE Fraction(1, 1)

\* DmrDevice.brightness_level, contrast_level, sharpness_level,
\* color_temperature_level, volume_level
brightness_level(svcs, sv) == _level(svcs, sv, "Brightness")
contrast_level(svcs, sv) == _level(svcs, sv, "Contrast")
sharpness_level(svcs, sv) == _level(svcs, sv, "Sharpness")
color_temperature_level(svcs, sv) == _level(svcs, sv, "ColorTemperature")
volume_level(svcs, sv) == _level(svcs, sv, "Volume")

\* the accessor of a level variable
LevelAccessor(svcs, sv, var_name) ==
    CASE var_name = "Brightness"       -> brightness_level(svcs, sv)
      [] var_name = "Contrast"         -> contrast_level(svcs, sv)
      [] var_name = "Sharpness"        -> sharpness_level(svcs, sv)
      [] var_name = "ColorTemperature" -> color_temperature_level(svcs, sv)
      [] var_name = "Volume"           -> volume_level(svcs, sv)

\* the declared ranges of the level variables of a device: <<min, max>>, 0 for
\* a bound the device does not declare
LevelRanges == {<<0, 0>>, <<0, 200>>, <<50, 150>>, <<0, 3>>}

\* the store of a device whose level variables declare the range r
LevelVariables(r) ==
    [n \in VarNames |->
        IF n \in LevelNames THEN [FreshVar EXCEPT !.min_value = r[1], !.max_value = r[2]]
        ELSE FreshVar]

\* the values the rendering service reports, by name and in LastChange
LevelEvents ==
    {Event("RC", << <<"Volume", v>> >>, <<>>) : v \in {"-5", "0", "100", "250"}}
      \cup {Event("RC", << <<n, "150">> >>, <<>>) :
               n \in {"Brightness", "Contrast"}}
      \cup {Event("RC", <<>>, <<StartElement("ColorTemperature", "3", None)>>)}

\* the fractions a caller asks for, in hundredths
LevelRequests == {-50, 0, 25, 50, 100, 150}

InitLevels ==
    /\ services = {"AVT", "RC", "CM"}
    /\ actions = AllActions
    /\ state_variables \in
         {LevelVariables(r) : r \in LevelRanges}
           \cup {[LevelVariables(<<0, 0>>) EXCEPT !["Contrast"] = NoVar]}
    /\ is_subscribed = TRUE
    /\ on_event = FALSE
    /\ _current_track_meta_data = None
    /\ _av_transport_uri_meta_data = None
    /\ update = IdleFrame
    /\ notification = NoEvent
    /\ observed = <<>>
    /\ command = NoCommand
    /\ wait = IdleWait

NextLevels ==
    \/ \E ev \in LevelEvents : Notify(ev)
    \/ Settle
    \/ \E answer \in ActionAnswers, level \in LevelRequests :
          Call(async_set_brightness_level(services, actions, state_variables, level, answer))
    \/ \E answer \in ActionAnswers, level \in LevelRequests :
          Call(async_set_contrast_level(services, actions, state_variables, level, answer))
    \/ \E answer \in ActionAnswers, level \in LevelRequests :
          Call(async_set_sharpness_level(services, actions, state_variables, level, answer))
    \/ \E answer \in ActionAnswers, level \in LevelRequests :
          Call(async_set_color_temperature_level(services, actions, state_variables,
                                                 level, answer))
    \/ \E answer \in ActionAnswers, level \in LevelRequests :
          Call(async_set_volume_level(services, actions, state_variables, level, answer))

SpecLevels == InitLevels /\ [][NextLevels]_vars

-----------------------------------------------------------------------------
(* The state readers, with the notifications that set what they read.      *)

\* raw values a device reports for TransportState and for CurrentPlayMode
RawStates ==
    {"PLAYING", "Playing", " playing ", "paused_playback", "\tSTOPPED\n", "stopped",
     "bogus", "paused playback", "", " ", "VENDOR_DEFINED"}
RawModes == {"NORMAL", "shuffle", " Repeat_One ", "direct_1", "party", ""}

ReaderEvents ==
    {Event("AVT", << <<"TransportState", v>> >>, <<>>) : v \in RawStates}
      \cup {Event("AVT", << <<"CurrentPlayMode", v>> >>, <<>>) : v \in RawModes}
      \cup {Event("AVT", <<>>, <<StartElement("avt:TransportState", "Playing", None)>>)}

InitReaders ==
    /\ services \in {{"AVT", "RC", "CM"}, {"RC", "CM"}}
    /\ actions = AllActions
    /\ state_variables \in
         {AllVariables, [AllVariables EXCEPT !["TransportState"] = NoVar],
          [AllVariables EXCEPT !["CurrentPlayMode"] = NoVar]}
    /\ is_subscribed = TRUE
    /\ on_event \in BOOLEAN
    /\ _current_track_meta_data = None
    /\ _av_transport_uri_meta_data = None
    /\ update = IdleFrame
    /\ notification = NoEvent
    /\ observed = <<>>
    /\ command = NoCommand
    /\ wait = IdleWait

NextReaders ==
    \/ \E ev \in ReaderEvents : Notify(ev)
    \/ Settle

SpecReaders == InitReaders /\ [][NextReaders]_vars

-----------------------------------------------------------------------------
(* The decoder on payloads of the rendering service: channels, and text    *)
(* that is not well-formed.                                                *)

DecodeAlphabet ==
    {StartElement("InstanceID", "0", None),
     EndElement("InstanceID"),
     StartElement("Volume", "10", "Master"),
     StartElement("Volume", "20", "LF"),
     StartElement("Brightness", "30", None),
     RecoverableError,
     FatalError}

DecodeEvents == {Event("RC", <<>>, p) : p \in PayloadsOver(DecodeAlphabet) \ {<<>>}}

InitDecode ==
    /\ services = {"AVT", "RC", "CM"}
    /\ actions = AllActions
    /\ state_variables = AllVariables
    /\ is_subscribed = TRUE
    /\ on_event \in BOOLEAN
    /\ _current_track_meta_data = None
    /\ _av_transport_uri_meta_data = None
    /\ update = IdleFrame
    /\ notification = NoEvent
    /\ observed = <<>>
    /\ command = NoCommand
    /\ wait = IdleWait

NextDecode ==
    \/ \E ev \in DecodeEvents : Notify(ev)
    \/ Settle

SpecDecode == InitDecode /\ [][NextDecode]_vars

-----------------------------------------------------------------------------
(* The bounded wait: async_wait_for_can_play.  The call is suspended at    *)
(* its sleep, and notifications are handled meanwhile.                     *)

\* longest wait a caller asks for, in seconds
MaxWaitTime == 2

\* count = int(max_wait_time / loop_time), loop_time being 0.25
LoopCount(max_wait_time) == TruncDiv(max_wait_time * 100, 25)

RunLoop_extra_round(w, permitted) ==
    IF Len(w.checks) > w.count THEN [w EXCEPT !.pc = "done"]
    ELSE IF permitted THEN [w EXCEPT !.checks = Append(@, TRUE), !.pc = "done"]
    ELSE [w EXCEPT !.checks = Append(@, FALSE), !.pc = "sleeping", !.sleeps = @ + 1]

\* the for loop from the top of a round to the next sleep or to the return:
\* permitted is what self._can_transport_action("play") gives now
RunLoop(w, permitted) ==
    IF Len(w.checks) = w.count THEN [w EXCEPT !.pc = "done"]
    ELSE IF permitted THEN [w EXCEPT !.checks = Append(@, TRUE), !.pc = "done"]
    ELSE [w EXCEPT !.checks = Append(@, FALSE), !.pc = "sleeping", !.sleeps = @ + 1]

\* DmrDevice.async_wait_for_can_play, from the call to its first sleep or its return
async_wait_for_can_play(max_wait_time) ==
    /\ wait.pc # "sleeping"
    /\ wait' = RunLoop([IdleWait EXCEPT !.call = 1 - wait.call,
                                        !.count = LoopCount(max_wait_time)],
                       _can_transport_action(services, state_variables, "play"))
    /\ UNCHANGED <<services, actions, state_variables, is_subscribed, on_event,
                   _current_track_meta_data, _av_transport_uri_meta_data,
                   update, notification, observed, command>>

\* asyncio.sleep(loop_time) is over and the loop goes on
WakeUp ==
    /\ wait.pc = "sleeping"
    /\ wait' = RunLoop(wait, _can_transport_action(services, state_variables, "play"))
    /\ UNCHANGED <<services, actions, state_variables, is_subscribed, on_event,
                   _current_track_meta_data, _av_transport_uri_meta_data,
                   update, notification, observed, command>>

WaitEvents ==
    {Event("AVT", << <<"CurrentTransportActions", v>> >>, <<>>) : v \in {"Play,Stop", "Stop"}}

InitWait ==
    /\ services = {"AVT", "RC", "CM"}
    /\ actions = AllActions
    /\ state_variables \in
         {AllVariables, [AllVariables EXCEPT !["CurrentTransportActions"] = NoVar]}
    /\ is_subscribed = TRUE
    /\ on_event = FALSE
    /\ _current_track_meta_data = None
    /\ _av_transport_uri_meta_data = None
    /\ update = IdleFrame
    /\ notification = NoEvent
    /\ observed = <<>>
    /\ command = NoCommand
    /\ wait = IdleWait

NextWait ==
    \/ \E max_wait_time \in 0..MaxWaitTime : async_wait_for_can_play(max_wait_time)
    \/ WakeUp
    \/ \E ev \in WaitEvents : Notify(ev)
    \/ Settle

\* the event loop ends every sleep
SpecWait == InitWait /\ [][NextWait]_vars /\ WF_vars(WakeUp)

-----------------------------------------------------------------------------
(* The descriptor builder called by itself, over the answers of the        *)
(* resource and of the device.                                             *)

\* a call of construct_play_media_metadata: its arguments, the answers it was
\* given and what it did
Described(media_url, o, head, get, protocol_info, r) ==
    [name |-> "construct_play_media_metadata",
     outcome |-> IF r.raised = None THEN "returned" ELSE r.raised,
     invoked |-> r.invoked,
     media_url |-> media_url, overrides |-> o, head |-> head, get |-> get,
     protocol_info |-> protocol_info, result |-> r]

DescriptorUrls == {"http://host/a.mp3", "http://host/a"}

DescriptorOverrides ==
    {NoOverrides,
     [NoOverrides EXCEPT !.mime_type = "audio/mpeg"],
     [NoOverrides EXCEPT !.dlna_features = "DLNA.ORG_PN=MP3"],
     [NoOverrides EXCEPT !.default_mime_type = "image/jpeg"]}

DescriptorHeadAnswers ==
    {RequestRaises, Response(405, None, None), Response(200, "video/mp4", None),
     Response(200, None, "DLNA.ORG_PN=MP3"), Response(301, "video/mp4", "DLNA.ORG_PN=MP3")}

DescriptorGetAnswers ==
    {RequestRaises, Response(404, "video/mp4", "DLNA.ORG_PN=MP3"),
     Response(200, "audio/mpeg", "DLNA.ORG_PN=MP3")}

\* answers of CM/GetProtocolInfo; <<"">> is the entry of an empty list
DescriptorProtocolInfos ==
    {ProtocolInfoRaises,
     ProtocolInfo(<< <<"">> >>, << <<"http-get", "*", "audio/mpeg", "*">> >>),
     ProtocolInfo(<< <<"http-get", "*", "audio/mpeg", "*">> >>, << <<"">> >>),
     ProtocolInfo(<< <<"http-get", "*", "audio/mpeg", "DLNA.ORG_PN=MP3">> >>,
                  << <<"http-get", "*", "audio/mpeg", "DLNA.ORG_PN=MP3">>,
                     <<"http-get", "*", "audio/mpeg", "*">> >>),
     ProtocolInfo(<< <<"http-get", "*", "video/mp4", "*">> >>,
                  << <<"http-get", "*", "video/mp4", "*">> >>),
     ProtocolInfo(<< <<"">> >>, << <<"">> >>)}

InitDescriptor ==
    /\ services = {"AVT", "RC", "CM"}
    /\ actions \in {AllActions, AllActions \ {"GetProtocolInfo"}}
    /\ state_variables = AllVariables
    /\ is_subscribed = TRUE
    /\ on_event = FALSE
    /\ _current_track_meta_data = None
    /\ _av_transport_uri_meta_data = None
    /\ update = IdleFrame
    /\ notification = NoEvent
    /\ observed = <<>>
    /\ command = NoCommand
    /\ wait = IdleWait

NextDescriptor ==
    \/ \E media_url \in DescriptorUrls, o \in DescriptorOverrides,
          head \in DescriptorHeadAnswers, get \in DescriptorGetAnswers,
          protocol_info \in DescriptorProtocolInfos :
          Call(Described(media_url, o, head, get, protocol_info,
                         construct_play_media_metadata(services, actions, media_url, o,
                                                       head, get, protocol_info)))
    \/ Settle

SpecDescriptor == InitDescriptor /\ [][NextDescriptor]_vars

-----------------------------------------------------------------------------
(* Devices of partial support: the capability predicates beside the        *)
(* commands and accessors they announce.                                   *)

\* the allowed values a device declares for A_ARG_TYPE_SeekMode
SeekModeLists ==
    {<<>>, <<"ABS_TIME", "REL_TIME">>, <<"REL_TIME">>, <<" Abs_Time ", "TRACK_NR">>}

\* the stores of the devices: every variable modelled, with each list of seek
\* modes; no seek-mode variable; no mute, preset, play-mode or brightness variable
CapabilityStores ==
    {[AllVariables EXCEPT !["A_ARG_TYPE_SeekMode"].allowed_values = l] :
        l \in SeekModeLists}
      \cup {[AllVariables EXCEPT !["A_ARG_TYPE_SeekMode"] = NoVar],
            [AllVariables EXCEPT !["Mute"] = NoVar, !["PresetNameList"] = NoVar,
                                 !["CurrentPlayMode"] = NoVar, !["Brightness"] = NoVar]}

\* the actions (and arguments) the devices expose
CapabilityProfiles ==
    {AllActions, AllActions \ {"SetVolume.DesiredVolume"}, AllActions \ {"Seek"},
     AllActions \ {"SetMute", "SelectPreset", "SetPlayMode", "SetBrightness"}}

CapabilityEvents ==
    {Event("AVT", << <<"CurrentTransportActions", v>> >>, <<>>) :
        v \in {"Play,Stop", "Next,Previous,Seek"}}
      \cup {Event("RC", << <<"PresetNameList", "FactoryDefaults, InstallationDefaults">> >>,
                  <<>>)}

InitCapabilities ==
    /\ services \in {{"AVT", "RC", "CM"}, {"AVT", "CM"}}
    /\ actions \in CapabilityProfiles
    /\ state_variables \in CapabilityStores
    /\ is_subscribed = TRUE
    /\ on_event = FALSE
    /\ _current_track_meta_data = None
    /\ _av_transport_uri_meta_data = None
    /\ update = IdleFrame
    /\ notification = NoEvent
    /\ observed = <<>>
    /\ command = NoCommand
    /\ wait = IdleWait

NextCapabilities ==
    \/ \E ev \in CapabilityEvents : Notify(ev)
    \/ Settle
    \/ \E answer \in ActionAnswers :
          Call(async_seek_abs_time(services, actions, state_variables, answer))
    \/ \E answer \in ActionAnswers :
          Call(async_seek_rel_time(services, actions, state_variables, answer))
    \/ \E answer \in ActionAnswers, mode \in {"NORMAL", "SHUFFLE"} :
          Call(async_set_play_mode(services, actions, mode, answer))
    \/ \E answer \in ActionAnswers :
          Call(async_select_preset(services, actions, "FactoryDefaults", answer))
    \/ \E answer \in ActionAnswers, mute \in BOOLEAN :
          Call(async_mute_volume(services, actions, mute, answer))
    \/ \E answer \in ActionAnswers, level \in LevelInputs :
          Call(async_set_brightness_level(services, actions, state_variables, level, answer))
    \/ \E answer \in ActionAnswers, level \in LevelInputs :
          Call(async_set_contrast_level(services, actions, state_variables, level, answer))
    \/ \E answer \in ActionAnswers, level \in LevelInputs :
          Call(async_set_sharpness_level(services, actions, state_variables, level, answer))
    \/ \E answer \in ActionAnswers, level \in LevelInputs :
          Call(async_set_color_temperature_level(services, actions, state_variables,
                                                 level, answer))
    \/ \E answer \in ActionAnswers, level \in LevelInputs :
          Call(async_set_volume_level(services, actions, state_variables, level, answer))

SpecCapabilities == InitCapabilities /\ [][NextCapabilities]_vars

-----------------------------------------------------------------------------
(* Claims about the update loop, checked under SpecUpdate.                 *)

HasAVT == _service(services, "AVT")
Polled(u, name) == name \in Range(u.polls)

\* the step takes the decision of the given source line of async_update
Decides(line) ==
    /\ line \in update'.reached
    /\ update'.call # update.call \/ line \notin update.reached

\* the place of a poll in the order async_update issues its polls in
PollRank(name) ==
    CASE name = "GetTransportInfo"      -> 1
      [] name = "GetPositionInfo"       -> 2
      [] name = "GetMediaInfo"          -> 3
      [] name = "GetDeviceCapabilities" -> 4
      [] name = "GetTransportSettings"  -> 5
      [] name = "GetMute"               -> 6
      [] name = "GetVolume"             -> 7

PollsInOrder(u) ==
    \A i, j \in DOMAIN u.polls : i < j => PollRank(u.polls[i]) < PollRank(u.polls[j])

UnsubscribedPolls ==
    {"GetMediaInfo", "GetDeviceCapabilities", "GetTransportSettings", "GetMute", "GetVolume"}

\* C1: in a call on a device with the AVT service, GetPositionInfo is polled
\* exactly when transport_state, read once the GetTransportInfo poll of the call
\* (if any) has completed, is PLAYING or PAUSED_PLAYBACK, whatever is_subscribed
\* and do_ping are; and GetPositionInfo is never polled before GetTransportInfo.
C1_PositionPolledIffPlaying ==
    [][ /\ (HasAVT /\ Decides(251)) =>
             (Polled(update', "GetPositionInfo") <=>
                transport_state(services', state_variables')
                    \in {"PLAYING", "PAUSED_PLAYBACK"})
        /\ Polled(update', "GetPositionInfo") => 251 \in update'.reached
        /\ \A i, j \in DOMAIN update'.polls :
             (update'.polls[i] = "GetPositionInfo" /\ update'.polls[j] = "GetTransportInfo")
                => j < i
      ]_vars

\* a subscribed call without do_ping that polled the position and nothing else
C1_Witness ==
    /\ HasAVT /\ update.pc = "done" /\ is_subscribed /\ ~update.do_ping
    /\ update.polls = <<"GetPositionInfo">>

\* C2: in a call on a device with the AVT service, GetTransportInfo is polled
\* iff the device is not subscribed or do_ping was asked for; it is the first
\* poll of the call; and in a call that did not poll it no poll of the call
\* writes TransportState (only notifications do).
C2_TransportInfoPolledIffUnsubscribedOrPing ==
    [][ /\ (HasAVT /\ update'.call # update.call) =>
             (Polled(update', "GetTransportInfo") <=> (~is_subscribed \/ update'.do_ping))
        /\ Polled(update', "GetTransportInfo") => update'.polls[1] = "GetTransportInfo"
        /\ \A i \in DOMAIN update'.polls :
             update'.polls[i] = "GetTransportInfo" => i = 1
        /\ (update.pc \in Suspended /\ update' # update
              /\ ~Polled(update, "GetTransportInfo")) =>
             state_variables'["TransportState"] = state_variables["TransportState"]
      ]_vars

\* a subscribed call with do_ping that polled GetTransportInfo and ended
C2_Witness ==
    /\ HasAVT /\ update.pc = "done" /\ is_subscribed /\ update.do_ping
    /\ update.polls = <<"GetTransportInfo">>

\* C3: in a call on a device with the AVT service, GetMediaInfo,
\* GetDeviceCapabilities, GetTransportSettings, GetMute and GetVolume are polled
\* iff the device is not subscribed when the call reaches that branch; the AVT
\* three come before the RC two and after any transport or position poll.
C3_UnsubscribedPollsIffUnsubscribed ==
    [][ /\ (HasAVT /\ Decides(260)) =>
             /\ ~is_subscribed =>
                  \A n \in {"GetMediaInfo", "GetDeviceCapabilities", "GetTransportSettings"} :
                     Polled(update', n)
             /\ is_subscribed => \A n \in UnsubscribedPolls : ~Polled(update', n)
        /\ (\E n \in UnsubscribedPolls : Polled(update', n)) => 260 \in update'.reached
        /\ (update'.pc = "done" /\ Polled(update', "GetMediaInfo")) =>
             \A n \in UnsubscribedPolls : Polled(update', n)
        /\ (Polled(update', "GetMute") \/ Polled(update', "GetVolume")) =>
             \A n \in UnsubscribedPolls : Polled(update', n)
        /\ PollsInOrder(update')
      ]_vars

\* an unsubscribed call that went through all seven polls
C3_Witness ==
    /\ HasAVT /\ update.pc = "done" /\ ~is_subscribed
    /\ update.polls = <<"GetTransportInfo", "GetPositionInfo", "GetMediaInfo",
                        "GetDeviceCapabilities", "GetTransportSettings",
                        "GetMute", "GetVolume">>

\* C4: without the AVT service async_update polls nothing, pings iff do_ping
\* and returns; with the AVT service it never pings.
C4_NoTransportServiceOnlyPings ==
    /\ (~HasAVT /\ update.pc # "idle") =>
         /\ update.polls = <<>>
         /\ update.pinged <=> update.do_ping
         /\ update.pc \in {"async_ping", "done", "raised"}
         /\ ~update.do_ping => update.pc = "done"
    /\ HasAVT => ~update.pinged /\ update.pc # "async_ping"

\* a call with do_ping on a device without the AVT service, after the ping
C4_Witness ==
    ~HasAVT /\ update.pc = "done" /\ update.do_ping /\ update.pinged

-----------------------------------------------------------------------------
(* Claims about the dispatch of LastChange, checked under SpecLastChange.  *)

\* the step is the arrival of the notification recorded in notification'
NotifyStep == notification = NoEvent /\ notification' # NoEvent

\* every entry of the payload lies in one scope, opened by an InstanceID element
\* with the given val: the payload is that element, then variable elements
\* only, then at most the closing of the scope
UnderInstance(p, id) ==
    /\ Len(p) >= 2
    /\ p[1] = StartElement("InstanceID", id, None)
    /\ p[2].name # "InstanceID"
    /\ \A i \in 2..Len(p) :
         p[i].name = "InstanceID" => (p[i].kind = "end" /\ i = Len(p))

\* what the profile's accessors return
Reads(svcs, sv, ctm, uri) ==
    <<transport_state(svcs, sv), media_title(ctm), media_artist(ctm),
      media_album_name(ctm), uri, [n \in VarNames |-> sv[n].value]>>

\* a notification whose payload lies under one of the given instance ids
\* leaves the store, the caches and the reads as they were
IgnoresInstances(ids) ==
    \A id \in ids :
       UnderInstance(notification'.event_data, id) =>
          /\ state_variables' = state_variables
          /\ _current_track_meta_data' = _current_track_meta_data
          /\ _av_transport_uri_meta_data' = _av_transport_uri_meta_data
          /\ Reads(services', state_variables', _current_track_meta_data',
                   _av_transport_uri_meta_data')
               = Reads(services, state_variables, _current_track_meta_data,
                       _av_transport_uri_meta_data)

\* the store after the notification is the store with the entries decoded
\* under instance "0" applied, and no other
AppliesInstance0 ==
    state_variables' =
        SetValues(state_variables, notification'.service,
                  ChangesOf(_parse_last_change_event(notification'.event_data), "0"))

-----------------------------------------------------------------------------
(* Claims about the metadata caches, checked under SpecCache.              *)

MetaDataSources == {"CurrentTrackMetaData", "AVTransportURIMetaData"}

\* the cache the claims expect for a value of the source variable
ExpectedCache(xml) ==
    IF xml \in {None, "", "NOT_IMPLEMENTED"} THEN None
    ELSE IF from_xml_string(xml) = <<>> THEN None
    ELSE IF from_xml_string(xml)[1] \notin DidlObject THEN None
    ELSE from_xml_string(xml)[1]

\* at a call of the observer, the cache of the source variable is derived from
\* the value the variable has at that moment
Fresh(call, name) ==
    /\ name = "CurrentTrackMetaData" => call.ctm = ExpectedCache(call.ctm_source)
    /\ name = "AVTransportURIMetaData" => call.uri = ExpectedCache(call.uri_source)

\* the variables a notification changes: those it names and those of its
\* LastChange payload under instance "0"
ChangedBy(ev) ==
    Range(Keys(ev.direct))
        \cup Range(Keys(ChangesOf(_parse_last_change_event(ev.event_data), "0")))

\* the notification names a metadata source variable next to a LastChange payload
NamesMetaDataBesideLastChange(ev) ==
    ev.event_data # <<>> /\ Range(Keys(ev.direct)) \cap MetaDataSources # {}

\* at every call of the observer the caches of all metadata variables the
\* notification changed are fresh
FreshAtEveryCall ==
    \A i \in DOMAIN observed :
       \A name \in ChangedBy(notification) \cap MetaDataSources :
          Fresh(observed[i], name)

\* the steps of one notification, as the observer's calls show them: the variables
\* of the payload are applied and their caches derived when the observer is
\* called for them, and the call for the notification itself comes last
OrderOfSteps ==
    /\ ~on_event => observed = <<>>
    /\ (on_event /\ notification # NoEvent) =>
         /\ observed # <<>>
         /\ observed[Len(observed)].names = EventNames(notification)
         /\ \A name \in ChangedBy(notification) \cap MetaDataSources :
               Fresh(observed[Len(observed)], name)
    /\ \A i \in DOMAIN observed :
         \A name \in Range(observed[i].names) \cap MetaDataSources :
            Fresh(observed[i], name)
    /\ \A i \in DOMAIN observed :
         /\ "CurrentTrackMetaData" \in Range(observed[i].names) =>
              observed[i].ctm_source = state_variables["CurrentTrackMetaData"].value
         /\ "AVTransportURIMetaData" \in Range(observed[i].names) =>
              observed[i].uri_source = state_variables["AVTransportURIMetaData"].value

\* C6 as stated: decode, apply, re-derive, and only then the observer; the
\* observer is never called while a cache holds a value derived from an older
\* value of a variable the notification changed.
C6_Original ==
    notification.service = "AVT" => (OrderOfSteps /\ FreshAtEveryCall)

\* C6, amended: the order holds, and at each call of the observer the caches of
\* the metadata variables handed to that call are fresh; the caches of all
\* metadata variables the notification changed are fresh at every call unless
\* the notification names a metadata variable next to a LastChange payload, and
\* at the last call in any case.
C6_ObserverAfterCaches ==
    notification.service = "AVT" =>
       /\ OrderOfSteps
       /\ ~NamesMetaDataBesideLastChange(notification) => FreshAtEveryCall

\* a LastChange payload carrying CurrentTrackMetaData was dispatched: the observer
\* was called for the expanded variable with the cache derived, then for LastChange
C6_Witness ==
    /\ notification = Event("AVT", <<>>,
                            <<StartElement("avt:CurrentTrackMetaData", ItemA, None)>>)
    /\ Len(observed) = 2
    /\ observed[1].names = <<"CurrentTrackMetaData">>
    /\ observed[1].ctm = "itemA"
    /\ observed[2].names = <<"LastChange">>

\* C10: the current-track cache is a function of the last value of
\* CurrentTrackMetaData alone: empty for an absent, empty or NOT_IMPLEMENTED
\* value and for one that decodes to nothing or to a non-item, else the first
\* item decoded; after an empty or sentinel value every accessor returns absent.
C10_CacheFollowsLastValue ==
    LET xml == state_variables["CurrentTrackMetaData"].value
    IN  /\ _current_track_meta_data = ExpectedCache(xml)
        /\ xml \in {None, "", "NOT_IMPLEMENTED"} =>
             /\ media_title(_current_track_meta_data) = None
             /\ media_artist(_current_track_meta_data) = None
             /\ media_album_name(_current_track_meta_data) = None
        /\ \A attr \in MetaDataAttrs :
             _get_current_track_meta_data(_current_track_meta_data, attr) =
                IF ExpectedCache(xml) # None /\ hasattr(ExpectedCache(xml), attr)
                THEN getattr(ExpectedCache(xml), attr) ELSE None

\* the sentinel was delivered after the playlist metadata had been set by an
\* earlier notification, and the current-track accessors return absent
C10_Witness ==
    /\ notification = Event("AVT", << <<"CurrentTrackMetaData", "NOT_IMPLEMENTED">> >>, <<>>)
    /\ _av_transport_uri_meta_data = "itemB"
    /\ _current_track_meta_data = None
    /\ media_title(_current_track_meta_data) = None

-----------------------------------------------------------------------------
(* Claims about the command methods, checked under SpecCommands.           *)

\* the step is the call of the command recorded in command'
CommandStep == command = NoCommand /\ command' # NoCommand

\* the CurrentTransportActions variable, NoVar when the device does not model it
TransportActionsVar ==
    IF "AVT" \in services THEN state_variables["CurrentTransportActions"] ELSE NoVar

\* the lower-cased, trimmed names of the comma-separated current-actions value
ListedActions ==
    LET value == IF TransportActionsVar.value = None THEN ""
                 ELSE TransportActionsVar.value
    IN  {Strip(Lower(e)) : e \in Range(SplitComma(value))}

\* a current-actions list is held: the variable is there and has been populated
ListHeld ==
    /\ TransportActionsVar.present
    /\ TransportActionsVar.value # None \/ TransportActionsVar.updated_at # None

\* the permission check of a transport action fails
PermissionFails(action) == ListHeld /\ action \notin ListedActions

GatedCommands ==
    {"async_pause", "async_play", "async_stop", "async_next", "async_previous",
     "async_seek_abs_time", "async_seek_rel_time"}

\* the lower-cased action name a command's permission check looks for
PermissionOf(name) ==
    CASE name = "async_pause"    -> "pause"
      [] name = "async_play"     -> "play"
      [] name = "async_stop"     -> "stop"
      [] name = "async_next"     -> "next"
      [] name = "async_previous" -> "previous"
      [] name \in {"async_seek_abs_time", "async_seek_rel_time"} -> "seek"

\* the service role and the device action a command method needs
RoleOf(name) ==
    IF name \in GatedCommands
         \cup {"async_set_play_mode", "async_set_transport_uri",
               "async_set_next_transport_uri"}
    THEN "AVT" ELSE "RC"
RequiredAction(name) ==
    CASE name = "async_pause"                  -> "Pause"
      [] name = "async_play"                   -> "Play"
      [] name = "async_stop"                   -> "Stop"
      [] name = "async_next"                   -> "Next"
      [] name = "async_previous"               -> "Previous"
      [] name = "async_seek_abs_time"          -> "Seek"
      [] name = "async_seek_rel_time"          -> "Seek"
      [] name = "async_set_play_mode"          -> "SetPlayMode"
      [] name = "async_select_preset"          -> "SelectPreset"
      [] name = "async_mute_volume"            -> "SetMute"
      [] name = "async_set_transport_uri"      -> "SetAVTransportURI"
      [] name = "async_set_next_transport_uri" -> "SetNextAVTransportURI"
      [] OTHER                                 -> name

\* the action the command recorded in c needs is not exposed by the device
RequiredActionMissing(c) ==
    ~(RoleOf(c.name) \in services /\ RequiredAction(c.name) \in actions)

\* C7: a gated transport command whose permission check fails at the call (a
\* list is held and lacks the action's lower-cased name) returns without error
\* and invokes nothing; no action is invoked where its permission check fails.
C7_NoInvocationWithoutPermission ==
    [][(CommandStep /\ command'.name \in GatedCommands) =>
          /\ PermissionFails(PermissionOf(command'.name)) =>
                (command'.outcome = "returned" /\ command'.invoked = <<>>)
          /\ command'.invoked # <<>> => ~PermissionFails(PermissionOf(command'.name))
      ]_vars

\* async_pause was called on a device that exposes Pause while the list held
\* was "Play,Stop": it returned and invoked nothing
C7_Witness ==
    /\ command = Result("async_pause", "returned", <<>>)
    /\ "AVT" \in services /\ "Pause" \in actions
    /\ state_variables["CurrentTransportActions"].present
    /\ state_variables["CurrentTransportActions"].value = "Play,Stop"

\* can_A, for the five transport actions, against has_A and a condition on the list
CanIffHasAnd(unconstrained) ==
    /\ can_pause(services, actions, state_variables) <=>
         (has_pause(services, actions) /\ (unconstrained \/ "pause" \in ListedActions))
    /\ can_play(services, actions, state_variables) <=>
         (has_play(services, actions) /\ (unconstrained \/ "play" \in ListedActions))
    /\ can_stop(services, actions, state_variables) <=>
         (has_stop(services, actions) /\ (unconstrained \/ "stop" \in ListedActions))
    /\ can_next(services, actions, state_variables) <=>
         (has_next(services, actions) /\ (unconstrained \/ "next" \in ListedActions))
    /\ can_previous(services, actions, state_variables) <=>
         (has_previous(services, actions) /\ (unconstrained \/ "previous" \in ListedActions))

\* the examples of the claim: with "Play,Stop" can_pause is false and can_stop
\* is has_stop; without the variable can_pause is has_pause
CanExamples ==
    /\ (TransportActionsVar.present /\ TransportActionsVar.value = "Play,Stop") =>
         /\ ~can_pause(services, actions, state_variables)
         /\ can_stop(services, actions, state_variables) <=> has_stop(services, actions)
    /\ ~TransportActionsVar.present =>
         (can_pause(services, actions, state_variables) <=> has_pause(services, actions))

\* C8 as stated: can_A iff the action is exposed and (the device publishes no
\* CurrentTransportActions variable or the lower-cased name of A is in its value).
C8_Original == CanIffHasAnd(~TransportActionsVar.present) /\ CanExamples

\* C8, amended: can_A iff the action is exposed and (the device models no
\* CurrentTransportActions variable, or the variable has never been populated
\* (no value and no update time), or the lower-cased name of A is in its value).
C8_CanIffExposedAndPermitted == CanIffHasAnd(~ListHeld) /\ CanExamples

\* the list held is "Play,Stop" on a device that exposes Pause and Stop
C8_Witness ==
    /\ TransportActionsVar.present /\ TransportActionsVar.value = "Play,Stop"
    /\ has_pause(services, actions) /\ has_stop(services, actions)
    /\ ~can_pause(services, actions, state_variables)
    /\ can_stop(services, actions, state_variables)

\* C9 as stated: a command whose required action is not exposed raises the
\* configuration error in every state and invokes no device action.
C9_Original ==
    [][(CommandStep /\ RequiredActionMissing(command')) =>
          (command'.outcome = "UpnpError" /\ command'.invoked = <<>>)]_vars

\* C9, amended: a command whose required action is not exposed never invokes
\* it and never returns normally, except that a gated transport command whose
\* permission check fails returns silently.  Select-preset, mute, set-play-mode
\* and the level setters raise the configuration error and invoke nothing; a
\* gated transport command does so when its permission check passes;
\* set-transport-uri and set-next-transport-uri raise it once the description
\* is built, which may invoke CM/GetProtocolInfo and may fail with that
\* action's error or another, and invoke nothing when the description is given.
C9_MissingActionRaises ==
    [][(CommandStep /\ RequiredActionMissing(command')) =>
          LET c == command'
              uri == c.name \in {"async_set_transport_uri", "async_set_next_transport_uri"}
              gated == c.name \in GatedCommands
          IN  /\ \A i \in DOMAIN c.invoked : c.invoked[i].action # RequiredAction(c.name)
              /\ (~uri /\ ~gated) => (c.outcome = "UpnpError" /\ c.invoked = <<>>)
              /\ gated =>
                   /\ c.invoked = <<>>
                   /\ PermissionFails(PermissionOf(c.name)) => c.outcome = "returned"
                   /\ ~PermissionFails(PermissionOf(c.name)) => c.outcome = "UpnpError"
              /\ uri =>
                   /\ c.outcome \in {"UpnpError", "device_error", "Exception"}
                   /\ \A i \in DOMAIN c.invoked : c.invoked[i].action = "GetProtocolInfo"
                   /\ c.invoked = <<>> => c.outcome = "UpnpError"
                   /\ c.outcome \in {"device_error", "Exception"} => c.invoked # <<>>
      ]_vars

\* async_mute_volume was called on a device without SetMute and raised
C9_Witness ==
    /\ command = Result("async_mute_volume", "UpnpError", <<>>)
    /\ "SetMute" \notin actions

-----------------------------------------------------------------------------
(* Claims about the levels, checked under SpecLevels.                      *)

\* the level variable exists and holds a value
HoldsValue(var_name) ==
    LET state_var == _state_variable(services, state_variables, "RC", var_name)
    IN  state_var.present /\ state_var.value # None

\* the declared range of a level variable, with the defaults of the code
DeclaredMin(var_name) == state_variables[var_name].min_value
DeclaredMax(var_name) ==
    IF state_variables[var_name].max_value = 0 THEN 100
    ELSE state_variables[var_name].max_value

\* C11 as stated: whenever a level variable exists and holds a value, its
\* accessor returns a fraction in the closed range [0,1], for every raw value
\* and every declared maximum, raw values above the maximum and below zero included.
C11_Original ==
    \A var_name \in LevelNames :
       HoldsValue(var_name) =>
          LET level == LevelAccessor(services, state_variables, var_name)
          IN  /\ ~level.raised /\ ~level.none
              /\ 0 <= level.num /\ level.num <= level.den

\* the device reported the raw volume -5 and volume_level is below zero
C11_Witness ==
    /\ state_variables["Volume"].value = "-5"
    /\ volume_level(services, state_variables).num < 0

\* the step is a level write for var_name that invokes the device's Set action
LevelWrite(var_name) ==
    /\ CommandStep
    /\ command'.name = SetAction(var_name)
    /\ command'.invoked # <<>>

\* C12 as stated: for every level write with any requested fraction, those
\* below 0 and above 1 included, the integer passed to the Set action lies in
\* the declared range [min,max], min defaulting to 0 and max to 100.
C12_Original ==
    [][\A var_name \in LevelNames :
          LevelWrite(var_name) =>
             /\ DeclaredMin(var_name) <= command'.invoked[1].level
             /\ command'.invoked[1].level <= DeclaredMax(var_name)]_vars

\* the volume was written with a value above the declared maximum
C12_Witness ==
    /\ command.name = "SetVolume" /\ command.invoked # <<>>
    /\ command.invoked[1].level > DeclaredMax("Volume")

\* the store once the device has reported the value written to var_name
AfterReport(var_name, written) ==
    SetValues(state_variables, "RC", << <<var_name, ToString(written)>> >>)

\* the fraction level is within one device step, 1 / (max - min), of f hundredths
WithinOneStep(level, f, var_name) ==
    LET span == DeclaredMax(var_name) - DeclaredMin(var_name)
        diff == (100 * level.num - f * level.den) * span
    IN  /\ ~level.raised /\ ~level.none
        /\ diff <= 100 * level.den /\ -diff <= 100 * level.den

\* the write of f hundredths to var_name, answered by the device
WriteOf(var_name, f) ==
    _async_set_level(services, actions, state_variables, var_name, f, "returned")

\* C13 as stated: writing a fraction f in [0,1] sends the linear interpolation
\* between min and max, and reading the level back when the variable holds the
\* written value returns f to within one device step; with bounds [0,200]
\* writing 0.5 sends 100 and reading raw 100 returns 0.5.
C13_Original ==
    [][\A var_name \in LevelNames, f \in LevelRequests \cap (0..100) :
          (/\ LevelWrite(var_name) /\ command' = WriteOf(var_name, f)
           /\ state_variables[var_name].present) =>
             LET written == command'.invoked[1].level
                 exact == 100 * DeclaredMin(var_name)
                            + f * (DeclaredMax(var_name) - DeclaredMin(var_name))
                 level == LevelAccessor(services, AfterReport(var_name, written), var_name)
             IN  /\ 100 * written <= exact /\ exact < 100 * (written + 1)
                 /\ WithinOneStep(level, f, var_name)
                 /\ (DeclaredMin(var_name) = 0 /\ DeclaredMax(var_name) = 200 /\ f = 50) =>
                       (written = 100 /\ level = Fraction(100, 200))]_vars

\* 0 was written to a level whose range is [50,150]: 50 was sent, and 50 reads
\* back as a third
C13_Witness ==
    /\ command = WriteOf("Brightness", 0)
    /\ command.invoked # <<>> /\ command.invoked[1].level = 50
    /\ DeclaredMin("Brightness") = 50 /\ DeclaredMax("Brightness") = 150
    /\ brightness_level(services, AfterReport("Brightness", 50)) = Fraction(50, 150)

-----------------------------------------------------------------------------
(* Claims about the state readers, checked under SpecReaders.              *)

\* the raw values of the model that are the member's name once surrounding
\* whitespace is trimmed and case is ignored
Spellings(member) ==
    CASE member = "PLAYING"         -> {"PLAYING", "Playing", " playing "}
      [] member = "PAUSED_PLAYBACK" -> {"paused_playback"}
      [] member = "STOPPED"         -> {"\tSTOPPED\n", "stopped"}
      [] member = "VENDOR_DEFINED"  -> {"VENDOR_DEFINED"}
      [] member = "NORMAL"          -> {"NORMAL"}
      [] member = "SHUFFLE"         -> {"shuffle"}
      [] member = "REPEAT_ONE"      -> {" Repeat_One "}
      [] member = "DIRECT_1"        -> {"direct_1"}
      [] OTHER                      -> {}

\* what the claim expects of a reader over an enumeration
ExpectedMember(state_var, enum) ==
    IF ~state_var.present THEN None
    ELSE IF \E m \in enum : state_var.value \in Spellings(m)
    THEN CHOOSE m \in enum : state_var.value \in Spellings(m)
    ELSE "VENDOR_DEFINED"

\* C14: transport_state returns None exactly when the device does not model
\* TransportState; otherwise the member whose name is the raw value trimmed
\* and with case ignored, and VENDOR_DEFINED for every other raw value, an
\* unpopulated or empty one included; play_mode does the same over PlayMode.
C14_ReadersTotal ==
    /\ transport_state(services, state_variables) =
         ExpectedMember(_state_variable(services, state_variables, "AVT", "TransportState"),
                        TransportState)
    /\ play_mode(services, state_variables) =
         ExpectedMember(_state_variable(services, state_variables, "AVT", "CurrentPlayMode"),
                        PlayMode)
    /\ transport_state(services, state_variables) \in TransportState \cup {None}
    /\ play_mode(services, state_variables) \in PlayMode \cup {None}
    /\ transport_state(services, state_variables) = None <=>
         ~("AVT" \in services /\ state_variables["TransportState"].present)
    /\ play_mode(services, state_variables) = None <=>
         ~("AVT" \in services /\ state_variables["CurrentPlayMode"].present)

\* the device reported " playing " and " Repeat_One ", read as PLAYING and REPEAT_ONE
C14_Witness ==
    /\ state_variables["TransportState"].value = " playing "
    /\ state_variables["CurrentPlayMode"].value = " Repeat_One "
    /\ transport_state(services, state_variables) = "PLAYING"
    /\ play_mode(services, state_variables) = "REPEAT_ONE"

-----------------------------------------------------------------------------
(* Claims about the decoder, checked under SpecDecode.                     *)

\* the payload meets a fatal parse failure
MeetsFatal(p) == \E i \in DOMAIN p : p[i] = FatalError

\* the part of the payload that precedes its first fatal failure
RECURSIVE BeforeFatal(_)
BeforeFatal(p) ==
    IF p = <<>> THEN <<>>
    ELSE IF Head(p) = FatalError THEN <<>>
    ELSE <<Head(p)>> \o BeforeFatal(Tail(p))

\* the payload without the places of its recoverable errors
RECURSIVE WithoutErrors(_)
WithoutErrors(p) ==
    IF p = <<>> THEN <<>>
    ELSE IF Head(p) = RecoverableError THEN WithoutErrors(Tail(p))
    ELSE <<Head(p)>> \o WithoutErrors(Tail(p))

\* the store after the dispatcher has applied the instance-"0" entries of a payload
StoreAfter(p) ==
    SetValues(state_variables, notification'.service,
              ChangesOf(_parse_last_change_event(p), "0"))

\* recoverable errors alone drop no entry: the decode and the store are those
\* of the payload without them
ErrorsDropNothing ==
    LET p == notification'.event_data
    IN  ~MeetsFatal(p) =>
           /\ _parse_last_change_event(p) = _parse_last_change_event(WithoutErrors(p))
           /\ state_variables' = StoreAfter(WithoutErrors(p))

\* C15 as stated: a fatal parse failure yields an empty ChangeSet, and no entry
\* of the elements before the failure is returned or applied to the store;
\* recoverable errors alone never drop entries.
C15_Original ==
    [][NotifyStep =>
          /\ MeetsFatal(notification'.event_data) =>
                /\ _parse_last_change_event(notification'.event_data) = <<>>
                /\ state_variables' = state_variables
          /\ ErrorsDropNothing]_vars

\* C15, amended: a fatal parse failure ends the decode without raising, and the
\* ChangeSet is that of the elements before the failure: their instance-"0"
\* entries are returned and applied to the store, and nothing after the
\* failure is; recoverable errors alone never drop entries.
C15_FatalKeepsWhatPreceded ==
    [][NotifyStep =>
          /\ MeetsFatal(notification'.event_data) =>
                /\ _parse_last_change_event(notification'.event_data)
                     = _parse_last_change_event(BeforeFatal(notification'.event_data))
                /\ state_variables' = StoreAfter(BeforeFatal(notification'.event_data))
          /\ ErrorsDropNothing]_vars

\* a payload that fails after its Brightness element was dispatched, and the
\* store holds the brightness and not the volume that came after the failure
C15_Witness ==
    /\ notification.event_data =
         <<StartElement("Brightness", "30", None), FatalError,
           StartElement("Volume", "10", "Master")>>
    /\ state_variables["Brightness"].value = "30"
    /\ state_variables["Volume"].value = None

\* the payload without its element at place i
Remove(p, i) == SubSeq(p, 1, i - 1) \o SubSeq(p, i + 1, Len(p))

\* the element carries a channel other than Master
OtherChannel(ev) == ev.kind = "start" /\ ev.channel \notin {None, "Master"}

\* what the dispatcher does with a payload from the state before the step
Dispatched(p) ==
    _on_event(Heap(state_variables, _current_track_meta_data,
                   _av_transport_uri_meta_data),
              on_event, notification'.service, <<"LastChange">>, p)

\* C16 as stated: an element with a channel other than Master is ignored: the
\* ChangeSet, what is applied to the store and the notifications made are those
\* of the payload with the element removed; it never creates an instance key.
C16_Original ==
    [][NotifyStep =>
          LET p == notification'.event_data
          IN  \A i \in DOMAIN p :
                 OtherChannel(p[i]) =>
                    /\ _parse_last_change_event(p) = _parse_last_change_event(Remove(p, i))
                    /\ state_variables' = StoreAfter(Remove(p, i))
                    /\ Remove(p, i) # <<>> => observed' = Dispatched(Remove(p, i)).log]_vars

\* a payload whose only element is the volume of channel LF was dispatched:
\* nothing was stored, and the observer was called for an empty expansion
C16_Witness ==
    /\ notification.event_data = <<StartElement("Volume", "20", "LF")>>
    /\ _parse_last_change_event(notification.event_data) = << <<"0", <<>> >> >>
    /\ state_variables["Volume"].value = None
    /\ Len(observed) = 2 /\ observed[1].names = <<>>

-----------------------------------------------------------------------------
(* Claims about the bounded wait, checked under SpecWait.                  *)

\* the checks made so far found play not permitted, but for the last
OnlyLastPermits(checks) == \A i \in 1..(Len(checks) - 1) : ~checks[i]

\* the shape of a call: at most count checks, a sleep after each check that
\* failed, the return at the first check that permits or when the rounds are used up
WaitShape ==
    /\ Len(wait.checks) <= wait.count
    /\ OnlyLastPermits(wait.checks)
    /\ wait.pc = "sleeping" =>
         /\ wait.checks # <<>> /\ ~wait.checks[Len(wait.checks)]
         /\ wait.sleeps = Len(wait.checks)
    /\ wait.pc = "done" =>
         \/ /\ wait.checks # <<>> /\ wait.checks[Len(wait.checks)]
            /\ wait.sleeps = Len(wait.checks) - 1
         \/ /\ Len(wait.checks) = wait.count
            /\ \A i \in DOMAIN wait.checks : ~wait.checks[i]
            /\ wait.sleeps = wait.count
    /\ wait.pc \in {"idle", "sleeping", "done"}

\* a step that makes a permission check finds what the store permits at that step
ChecksTheStore ==
    (\/ wait'.call # wait.call /\ wait'.checks # <<>>
     \/ wait'.call = wait.call /\ Len(wait'.checks) > Len(wait.checks)) =>
       wait'.checks[Len(wait'.checks)]
         = _can_transport_action(services, state_variables, "play")

\* C17: async_wait_for_can_play makes at most floor(max_wait_time / 0.25)
\* permission checks, sleeps once after each check that fails, returns at the
\* first check that finds play permitted, a permission that arrived during a
\* sleep included, returns without raising when the checks are used up, and
\* always terminates.
C17_WaitTerminates ==
    /\ []WaitShape
    /\ [][ChecksTheStore]_vars
    /\ (wait.pc = "sleeping") ~> (wait.pc = "done")

\* the call returned at its third check, play having been permitted by a
\* notification that arrived during the second sleep
C17_Witness ==
    /\ wait.pc = "done"
    /\ wait.checks = <<FALSE, FALSE, TRUE>>
    /\ wait.sleeps = 2
    /\ state_variables["CurrentTransportActions"].value = "Play,Stop"

-----------------------------------------------------------------------------
(* Claims about the descriptor builder, checked under SpecDescriptor.      *)

\* the last call was one of construct_play_media_metadata
BuilderCalled == command.name = "construct_play_media_metadata"

NotOverridden(value) == value \in {None, ""}

\* an entry of a protocol-info list is for the mime type and accepts anything
AcceptsAny(entry, mime_type) ==
    Len(entry) >= 4 /\ entry[3] = mime_type /\ entry[4] = "*"

\* C18 as stated: when the feature string was not overridden, the probed
\* feature string is not "*" and the device exposes GetProtocolInfo, the
\* feature string is widened to "*" if and only if a Sink entry whose
\* content-type field is the resolved mime type has "*" as its feature field;
\* Source entries never influence the result.
C18_Original ==
    (/\ BuilderCalled
     /\ NotOverridden(command.overrides.dlna_features)
     /\ command.result.probed_features # "*"
     /\ has_get_protocol_info(services, actions)) =>
       (command.result.dlna_features = "*" <=>
          \E i \in DOMAIN command.protocol_info.sink :
             AcceptsAny(command.protocol_info.sink[i], command.result.resolved_mime_type))

\* the device's Sink list accepts anything for audio/mpeg and its Source list
\* is empty: the sink protocol info was asked for and the features were not widened
C18_Witness ==
    /\ BuilderCalled /\ command.outcome = "returned"
    /\ command.result.asked
    /\ command.protocol_info =
         ProtocolInfo(<< <<"">> >>, << <<"http-get", "*", "audio/mpeg", "*">> >>)
    /\ command.result.resolved_mime_type = "audio/mpeg"
    /\ command.result.probed_features = "DLNA.ORG_PN=MP3"
    /\ command.result.dlna_features = "DLNA.ORG_PN=MP3"

Success(answer) == ~answer.raises /\ 200 <= answer.status /\ answer.status < 300

\* the builder probes the resource: mime type or feature string is not given
ProbeMade ==
    None \in {command.overrides.mime_type, command.overrides.dlna_features}

\* the probe failed: a request raised, or both had a status outside 200..299
ProbeFailed ==
    /\ ProbeMade
    /\ \/ command.head.raises
       \/ ~Success(command.head) /\ ~Success(command.get)

\* the mime type of a resource about which nothing is known
FallbackMimeType ==
    IF guess_type(command.media_url) \notin {None, ""}
    THEN guess_type(command.media_url)
    ELSE IF command.overrides.default_mime_type \notin {None, ""}
    THEN command.overrides.default_mime_type
    ELSE "application/octet-stream"

-----------------------------------------------------------------------------
(* The two reads of is_subscribed in async_update, checked under SpecUpdate. *)

\* the call has issued polls of the unsubscribed branch
UnsubscribedBranchTaken == \E n \in UnsubscribedPolls : Polled(update, n)

\* GetTransportInfo was polled before every unsubscribed-branch poll of the call
TransportInfoFirst ==
    /\ Polled(update, "GetTransportInfo")
    /\ \A i, j \in DOMAIN update.polls :
         (update.polls[i] = "GetTransportInfo" /\ update.polls[j] \in UnsubscribedPolls)
            => i < j

\* C20 as stated: in a call that issues the unsubscribed-branch polls,
\* GetTransportInfo was polled earlier in the same call, also when the
\* subscription status changes while the call is suspended at a poll.
C20_Original == (HasAVT /\ UnsubscribedBranchTaken) => TransportInfoFirst

\* C20: in a call that issues the unsubscribed-branch polls, GetTransportInfo
\* was polled earlier in the same call when do_ping was asked for or the call
\* did not suspend at GetPositionInfo between its two reads of is_subscribed;
\* a call without do_ping that issues them without GetTransportInfo polled
\* GetPositionInfo first, the subscription being lost while it was suspended
\* there; and the step that starts a call never issues them.
C20_TransportInfoFirstUnlessLostAtPosition ==
    [][ /\ (HasAVT /\ UnsubscribedBranchTaken' /\ ~TransportInfoFirst') =>
             /\ ~update'.do_ping
             /\ update'.polls[1] = "GetPositionInfo"
             /\ update.pc = "GetPositionInfo" \/ UnsubscribedBranchTaken
        /\ (HasAVT /\ Decides(260) /\ update.pc = "GetPositionInfo"
              /\ ~Polled(update, "GetTransportInfo")) =>
             (UnsubscribedBranchTaken' <=> ~is_subscribed)
        /\ update'.call # update.call => ~UnsubscribedBranchTaken'
      ]_vars

\* a call without do_ping that started subscribed, polled the position, found
\* the subscription lost on its return and went through the unsubscribed polls
C20_Witness ==
    /\ HasAVT /\ update.pc = "done" /\ ~update.do_ping /\ ~is_subscribed
    /\ update.polls = <<"GetPositionInfo", "GetMediaInfo", "GetDeviceCapabilities",
                        "GetTransportSettings", "GetMute", "GetVolume">>

-----------------------------------------------------------------------------
(* Seek commands beside the seek-mode capability, checked under            *)
(* SpecCapabilities.                                                       *)

SeekCommands == {"async_seek_abs_time", "async_seek_rel_time"}

\* the Unit a seek command sends
UnitOf(name) == IF name = "async_seek_abs_time" THEN "ABS_TIME" ELSE "REL_TIME"

\* has_seek_abs_time or has_seek_rel_time, by the command it announces
HasSeekFor(name) ==
    IF name = "async_seek_abs_time"
    THEN has_seek_abs_time(services, actions, state_variables)
    ELSE has_seek_rel_time(services, actions, state_variables)

CanSeekFor(name) ==
    IF name = "async_seek_abs_time"
    THEN can_seek_abs_time(services, actions, state_variables)
    ELSE can_seek_rel_time(services, actions, state_variables)

\* C21 as stated: a seek command invokes Seek only where the capability
\* predicate of its mode is true; a seek in a mode the device does not list is
\* never sent.
C21_Original ==
    [][(CommandStep /\ command'.name \in SeekCommands /\ command'.invoked # <<>>) =>
          HasSeekFor(command'.name)
      ]_vars

\* C21: a seek command invokes Seek, once and with the Unit of its mode,
\* exactly when the Seek action exists and the permission check of "seek"
\* passes; the modes listed by A_ARG_TYPE_SeekMode have no part in it, so the
\* seek is sent wherever can_seek_* is true and also where has_seek_* is false
\* for want of the mode.
C21_SeekSentIffExposedAndPermitted ==
    [][(CommandStep /\ command'.name \in SeekCommands) =>
          /\ command'.invoked # <<>> <=>
                /\ _action(services, actions, "AVT", "Seek")
                /\ _can_transport_action(services, state_variables, "seek")
          /\ command'.invoked # <<>> =>
                command'.invoked = <<Invocation("Seek", UnitOf(command'.name), 0)>>
          /\ CanSeekFor(command'.name) => command'.invoked # <<>>
      ]_vars

\* async_seek_abs_time sent Seek with Unit=ABS_TIME to a device that exposes
\* Seek and lists REL_TIME alone
C21_Witness ==
    /\ command.name = "async_seek_abs_time"
    /\ command.invoked = <<Invocation("Seek", "ABS_TIME", 0)>>
    /\ state_variables["A_ARG_TYPE_SeekMode"].allowed_values = <<"REL_TIME">>
    /\ ~has_seek_abs_time(services, actions, state_variables)
    /\ has_seek_rel_time(services, actions, state_variables)

-----------------------------------------------------------------------------
(* Capability predicates beside the operations they announce, checked      *)
(* under SpecCapabilities.                                                 *)

\* has_<level> of a level variable
HasLevel(var_name) ==
    CASE var_name = "Brightness"       ->
             has_brightness_level(services, actions, state_variables)
      [] var_name = "Contrast"         ->
             has_contrast_level(services, actions, state_variables)
      [] var_name = "Sharpness"        ->
             has_sharpness_level(services, actions, state_variables)
      [] var_name = "ColorTemperature" ->
             has_color_temperature_level(services, actions, state_variables)
      [] var_name = "Volume"           ->
             has_volume_level(services, actions, state_variables)

\* the command taken in this step is the named one and raises the profile's
\* UpnpError for a missing action or argument
RaisesConfigurationError(name) ==
    CommandStep /\ command'.name = name /\ command'.outcome = "UpnpError"

\* the reads announced by a true predicate do not raise
ReadsDoNotRaise ==
    /\ \A n \in LevelNames :
          HasLevel(n) => ~LevelAccessor(services, state_variables, n).raised
    /\ has_presets(services, actions, state_variables) =>
          ~preset_names(services, state_variables).raised

\* the writes announced by a true predicate, but for the level writes
OtherWritesDoNotRaise ==
    /\ has_volume_mute(services, actions, state_variables) =>
          ~RaisesConfigurationError("async_mute_volume")
    /\ has_presets(services, actions, state_variables) =>
          ~RaisesConfigurationError("async_select_preset")
    /\ has_play_mode(services, actions, state_variables) =>
          ~RaisesConfigurationError("async_set_play_mode")

\* C22 as stated: where a has_* predicate is true, the reads and writes it
\* announces raise no UpnpError for a missing variable, action or argument:
\* has_<level> for the level read and async_set_<level>, has_volume_mute for
\* async_mute_volume, has_presets for preset_names and async_select_preset,
\* has_play_mode for async_set_play_mode.
C22_Original ==
    [][ /\ ReadsDoNotRaise
        /\ OtherWritesDoNotRaise
        /\ \A n \in LevelNames : HasLevel(n) => ~RaisesConfigurationError(SetAction(n))
      ]_vars

\* has_volume_level is true of a device whose SetVolume action has no
\* DesiredVolume argument, and async_set_volume_level raised UpnpError
C22_Witness ==
    /\ has_volume_level(services, actions, state_variables)
    /\ "SetVolume.DesiredVolume" \notin actions
    /\ command.name = "SetVolume" /\ command.outcome = "UpnpError"
    /\ command.invoked = <<>>
=============================================================================
